---- MODULE Spec2Model ----
(***************************************************************************)
(* Model of the PR review pipeline of ai-pr-review-voice:                  *)
(*   api/src/index.ts          the /api/submit-pr handler                  *)
(*   api/src/lib/gemini-cli.ts workspace, clone, diff, tool run, cleanup   *)
(*   api/src/lib/github.ts     PR locator parsing and metadata fetch       *)
(*   api/src/types.ts          the Finding schema                          *)
(*                                                                         *)
(* Text is modelled as a sequence of tokens.  A token is either one of the *)
(* structural characters of JSON or an atom that stands for a run of       *)
(* characters holding no bracket, brace, comma or unescaped quote.         *)
(***************************************************************************)
EXTENDS Integers, Sequences, FiniteSets, TLC

(***************************************************************************)
(* Part 1.  Text, JSON.parse and the two bracket regular expressions.      *)
(***************************************************************************)

\* Atoms that are a complete member of a JSON object:
\*   idF1, idF2   "id":"F1","summary":"..","proposedComment":".." (the required strings)
\*   stFAIL       "status":"FAIL"        stBOGUS  "status":"BOGUS"
\*   cf5          "confidence":0.5       cf15     "confidence":1.5
\*   cfm1         "confidence":-0.1      fp       "filePath":"a.ts"
FieldToks == {"idF1", "idF2", "stFAIL", "stBOGUS", "cf5", "cf15", "cfm1", "fp"}

\* Keys that are followed by an arbitrary value: "response":, "evidence": and
\* "findings": (a key the extraction stages do not look at).
KeyToks == {"resp:", "ev:", "fnd:"}

\* Tokens that hold a quote character; inside a string literal each of them
\* is written with its quotes escaped.
QuoteToks == FieldToks \cup KeyToks \cup {"Q"}

\* A token as it is written inside a string literal.
Esc(tok) == IF tok \in QuoteToks THEN "\\" \o tok ELSE tok

\* The token a token of a string literal stands for.
Unesc(tok) ==
    IF \E q \in QuoteToks : tok = Esc(q)
    THEN CHOOSE q \in QuoteToks : tok = Esc(q)
    ELSE tok

\* A text as it is written inside a string literal.
EscText(text) == [j \in 1..Len(text) |-> Esc(text[j])]

\* A parsed JSON value: its kind and its children.
Val(kind, children) == [k |-> kind, items |-> children]

Undefined == Val("undefined", <<>>)

ParseFail == [ok |-> FALSE, v |-> Undefined, n |-> 0]

ParseOk(value, next) == [ok |-> TRUE, v |-> value, n |-> next]

\* Index of the first occurrence of tok in t at or after position i, 0 if none.
RECURSIVE IndexFrom(_, _, _)
IndexFrom(t, tok, i) ==
    IF i > Len(t) THEN 0
    ELSE IF t[i] = tok THEN i
    ELSE IndexFrom(t, tok, i + 1)

\* Index of the last occurrence of tok in t at or before position i, 0 if none.
RECURSIVE LastIndexUpTo(_, _, _)
LastIndexUpTo(t, tok, i) ==
    IF i < 1 THEN 0
    ELSE IF t[i] = tok THEN i
    ELSE LastIndexUpTo(t, tok, i - 1)

\* The characters of a string literal, each kept as a childless value.
StrItems(t, from, to) ==
    [j \in 1..(to - from + 1) |-> Val(Unesc(t[from + j - 1]), <<>>)]

\* The text held by a string value.
StrToks(value) == [j \in 1..Len(value.items) |-> value.items[j].k]

RECURSIVE ParseValue(_, _)
RECURSIVE ParseElems(_, _, _, _)
RECURSIVE ParseMembers(_, _, _, _)

\* JSON value starting at position i of t.
ParseValue(t, i) ==
    IF i > Len(t) THEN ParseFail
    ELSE IF t[i] = "null" THEN ParseOk(Val("null", <<>>), i + 1)
    ELSE IF t[i] = "num" THEN ParseOk(Val("num", <<>>), i + 1)
    ELSE IF t[i] = "Q" THEN
        LET j == IndexFrom(t, "Q", i + 1)
        IN  IF j = 0 THEN ParseFail
            ELSE ParseOk(Val("str", StrItems(t, i + 1, j - 1)), j + 1)
    ELSE IF t[i] = "[" THEN ParseElems(t, i + 1, <<>>, TRUE)
    ELSE IF t[i] = "{" THEN ParseMembers(t, i + 1, <<>>, TRUE)
    ELSE ParseFail

\* Elements of an array whose "[" has been consumed.
ParseElems(t, i, acc, first) ==
    IF i > Len(t) THEN ParseFail
    ELSE IF first /\ t[i] = "]" THEN ParseOk(Val("arr", acc), i + 1)
    ELSE LET r == ParseValue(t, i)
         IN  IF ~r.ok \/ r.n > Len(t) THEN ParseFail
             ELSE IF t[r.n] = "]" THEN ParseOk(Val("arr", Append(acc, r.v)), r.n + 1)
             ELSE IF t[r.n] = "," THEN ParseElems(t, r.n + 1, Append(acc, r.v), FALSE)
             ELSE ParseFail

\* Members of an object whose "{" has been consumed.
ParseMembers(t, i, acc, first) ==
    IF i > Len(t) THEN ParseFail
    ELSE IF first /\ t[i] = "}" THEN ParseOk(Val("obj", acc), i + 1)
    ELSE LET m == IF t[i] \in FieldToks THEN ParseOk(Val(t[i], <<>>), i + 1)
                  ELSE IF t[i] \in KeyToks THEN
                      LET r == ParseValue(t, i + 1)
                      IN  IF r.ok THEN ParseOk(Val(t[i], <<r.v>>), r.n) ELSE ParseFail
                  ELSE ParseFail
         IN  IF ~m.ok \/ m.n > Len(t) THEN ParseFail
             ELSE IF t[m.n] = "}" THEN ParseOk(Val("obj", Append(acc, m.v)), m.n + 1)
             ELSE IF t[m.n] = "," THEN ParseMembers(t, m.n + 1, Append(acc, m.v), FALSE)
             ELSE ParseFail

\* JSON.parse(t): ok = FALSE stands for the SyntaxError it throws.
JSONParse(t) ==
    LET r == ParseValue(t, 1)
    IN  IF r.ok /\ r.n = Len(t) + 1 THEN r ELSE ParseFail

NoMatch == [found |-> FALSE, s |-> <<>>]

\* The match of the response text made with the lazy expression.
MatchGreedyAsLazy(t) ==
    LET i == IndexFrom(t, "[", 1)
        j == IF i = 0 THEN 0 ELSE IndexFrom(t, "]", i + 1)
    IN  IF j = 0 THEN [found |-> FALSE, s |-> <<>>]
        ELSE [found |-> TRUE, s |-> SubSeq(t, i, j)]

\* text.match(/\[[\s\S]*\]/): from the first "[" to the last "]" after it.
MatchGreedy(t) ==
    LET i == IndexFrom(t, "[", 1)
        j == LastIndexUpTo(t, "]", Len(t))
    IN  IF i = 0 \/ j <= i THEN NoMatch
        ELSE [found |-> TRUE, s |-> SubSeq(t, i, j)]

\* A scan of raw output with the greedy expression.
MatchLazyAsGreedy(t) == MatchGreedy(t)

\* text.match(/\[[\s\S]*?\]/): from the first "[" to the first "]" after it.
MatchLazy(t) ==
    LET i == IndexFrom(t, "[", 1)
        j == IF i = 0 THEN 0 ELSE IndexFrom(t, "]", i + 1)
    IN  IF j = 0 THEN NoMatch
        ELSE [found |-> TRUE, s |-> SubSeq(t, i, j)]

(***************************************************************************)
(* Part 2.  runGeminiCLI (gemini-cli.ts 188-276) as a function of the exit *)
(* of the subprocess and of its standard output.                           *)
(***************************************************************************)

\* How the subprocess ended: exit 0, non-zero exit, killed by the timeout.
Exits == {"ok", "fail", "timeout"}

\* What a block of code does: return ret, or throw.  stage names the
\* extraction stage that produced ret.
Returned(findings, st) == [threw |-> FALSE, ret |-> findings, stage |-> st]

Thrown == [threw |-> TRUE, ret |-> <<>>, stage |-> "throw"]

\* Indices of the members of an object whose key is in keys.
MembersAt(value, keys) == {j \in 1..Len(value.items) : value.items[j].k \in keys}

\* The member of an object that a lookup of one of keys yields (the last one).
LastMember(value, keys) ==
    LET js == MembersAt(value, keys)
    IN  value.items[CHOOSE x \in js : \A y \in js : y <= x]

\* value.response in JavaScript, for a value that is not null or undefined:
\* the "response" member of an object, undefined for anything else.
PropResponse(value) ==
    IF value.k # "obj" \/ MembersAt(value, {"resp:"}) = {} THEN Undefined
    ELSE LastMember(value, {"resp:"}).items[1]

\* JavaScript truthiness ("num" stands for a non-zero number).
Truthy(value) ==
    CASE value.k \in {"undefined", "null"} -> FALSE
      [] value.k = "str" -> Len(value.items) > 0
      [] OTHER -> TRUE

\* The body of the inner try without its Array.isArray branch.
ParseBodyNoDirect(stdout) ==
    LET parsed == JSONParse(stdout)
        response == parsed.v
        text == PropResponse(response)
    IN  IF ~parsed.ok THEN Thrown
        ELSE IF response.k = "null" THEN Thrown
        ELSE IF ~Truthy(text) THEN Returned(<<>>, "none")
        ELSE IF text.k # "str" THEN Thrown
        ELSE LET jsonMatch == MatchGreedy(StrToks(text))
                 findings == JSONParse(jsonMatch.s)
             IN  IF ~jsonMatch.found THEN Returned(<<>>, "none")
                 ELSE IF ~findings.ok THEN Thrown
                 ELSE Returned(findings.v.items, "nested")

\* Lines 216-236: the body of the inner try block.
ParseBody(stdout) ==
    LET parsed == JSONParse(stdout)
        response == parsed.v
        text == PropResponse(response)
        direct == IF response.k = "arr" THEN Returned(response.items, "direct")
                  ELSE Returned(<<>>, "none")
    IN  IF ~parsed.ok THEN Thrown
        ELSE IF response.k = "null" THEN Thrown
        ELSE IF ~Truthy(text) THEN direct
        ELSE IF text.k # "str" THEN Thrown
        ELSE LET jsonMatch == MatchGreedy(StrToks(text))
                 findings == JSONParse(jsonMatch.s)
             IN  IF ~jsonMatch.found THEN direct
                 ELSE IF ~findings.ok THEN Thrown
                 ELSE Returned(findings.v.items, "nested")

\* The scan without the try block around its JSON.parse.
RawScanNoTry(stdout) ==
    LET jsonMatch == MatchLazy(stdout)
        findings == JSONParse(jsonMatch.s)
    IN  IF jsonMatch.found /\ findings.ok THEN Returned(findings.v.items, "raw")
        ELSE IF jsonMatch.found THEN Thrown
        ELSE Returned(<<>>, "none")

\* Lines 239-251 and 264-271: the scan of raw output for a bracketed array.
RawScan(stdout) ==
    LET jsonMatch == MatchLazy(stdout)
        findings == JSONParse(jsonMatch.s)
    IN  IF jsonMatch.found /\ findings.ok THEN Returned(findings.v.items, "raw")
        ELSE Returned(<<>>, "none")

\* A catch block that is missing: the exception of the body escapes.
SuccessPathNoCatch(stdout) == ParseBody(stdout)

\* An inner catch that returns [] without scanning the raw output.
SuccessPathCatchEmpty(stdout) ==
    LET body == ParseBody(stdout)
    IN  IF body.threw THEN Returned(<<>>, "none") ELSE body

\* Lines 214-252: exit 0; the inner try with its catch.
SuccessPath(stdout) ==
    LET body == ParseBody(stdout)
    IN  IF body.threw THEN RawScan(stdout) ELSE body

\* The outer catch without the scan of partial output.
FailurePathNoScan(stdout) == Returned(<<>>, "none")

\* Lines 253-275: the outer catch; stdout is error.stdout.
FailurePath(stdout) ==
    IF stdout # <<>> THEN RawScan(stdout) ELSE Returned(<<>>, "none")

\* An outer catch that rethrows when the subprocess was killed.
RunGeminiCLIRethrowKilled(exit, stdout) ==
    IF exit = "ok" THEN SuccessPath(stdout)
    ELSE IF exit = "timeout" THEN Thrown
    ELSE FailurePath(stdout)

\* Lines 188-276.
RunGeminiCLI(exit, stdout) ==
    IF exit = "ok" THEN SuccessPath(stdout) ELSE FailurePath(stdout)

(***************************************************************************)
(* The Finding schema (types.ts 4-34).                                     *)
(***************************************************************************)

\* Confidence atoms as tenths.
ConfTenths == [cf5 |-> 5, cf15 |-> 15, cfm1 |-> -1]

ConfToks == {"cf5", "cf15", "cfm1"}

\* EvidenceSchema: an object with a filePath string.
EvidenceSchemaOk(value) ==
    value.k = "obj" /\ MembersAt(value, {"fp"}) # {}

\* z.number().min(0).max(1) on the confidence member.
ConfidenceOk(value) ==
    /\ value.k = "obj"
    /\ MembersAt(value, ConfToks) # {}
    /\ ConfTenths[LastMember(value, ConfToks).k] >= 0
    /\ ConfTenths[LastMember(value, ConfToks).k] <= 10

\* FindingSchema.safeParse(value).success
FindingSchemaOk(value) ==
    /\ value.k = "obj"
    /\ MembersAt(value, {"idF1", "idF2"}) # {}
    /\ MembersAt(value, {"stFAIL", "stBOGUS"}) # {}
    /\ LastMember(value, {"stFAIL", "stBOGUS"}).k = "stFAIL"
    /\ ConfidenceOk(value)
    /\ MembersAt(value, {"ev:"}) # {}
    /\ LET ev == LastMember(value, {"ev:"}).items[1]
       IN  ev.k = "arr" /\ \A j \in 1..Len(ev.items) : EvidenceSchemaOk(ev.items[j])


(***************************************************************************)
(* Part 3.  The outputs the subprocess is made to produce.                 *)
(***************************************************************************)

\* Longest findings array the subprocess prints.
MaxFindings == 2

RECURSIVE Join(_, _)
Join(texts, sep) ==
    IF Len(texts) = 0 THEN <<>>
    ELSE IF Len(texts) = 1 THEN texts[1]
    ELSE texts[1] \o sep \o Join(Tail(texts), sep)

ObjText(members) == <<"{">> \o Join(members, <<",">>) \o <<"}">>

ArrText(elems) == <<"[">> \o Join(elems, <<",">>) \o <<"]">>

\* {"response":"<text>"}: the wrapper the tool prints with --output-format json.
WrapText(text) == <<"{", "resp:", "Q">> \o EscText(text) \o <<"Q", "}">>

EvEmpty == <<"ev:", "[", "]">>

EvOne == <<"ev:">> \o ArrText(<<ObjText(<<<<"fp">>>>)>>)

FindingText(id, st, cf, ev) ==
    ObjText(<<<<id>>, <<st>>, <<cf>>>> \o (IF ev = <<>> THEN <<>> ELSE <<ev>>))

\* Findings the model prints: valid ones, one with no evidence member (so
\* with no bracket inside), and ones the schema rejects.
FindingTexts ==
    { FindingText("idF1", "stFAIL", "cf5", EvOne),
      FindingText("idF2", "stFAIL", "cf5", EvEmpty),
      FindingText("idF1", "stFAIL", "cf5", <<>>),
      FindingText("idF1", "stBOGUS", "cf5", EvEmpty),
      FindingText("idF2", "stFAIL", "cf15", EvEmpty),
      FindingText("idF2", "stFAIL", "cfm1", <<>>) }

FindingSeqs == UNION {[1..n -> FindingTexts] : n \in 0..MaxFindings}

ArrayTexts == {ArrText(fs) : fs \in FindingSeqs}

\* Arrays of at most one finding, used where a text is decorated further.
SmallArrays == {ArrText(fs) : fs \in UNION {[1..n -> FindingTexts] : n \in 0..1}}

ScalarTexts ==
    { <<>>, <<"noise">>, <<"null">>, <<"num">>, <<"Q", "noise", "Q">>,
      <<"{", "}">>, <<"[", "num", "]">>, <<"[", "null", "]">>,
      <<"{", "resp:", "num", "}">>, <<"{", "resp:", "null", "}">>,
      <<"{", "resp:", "{", "}", "}">>, <<"{", "idF1", "}">> }

Prefixes(text) == {SubSeq(text, 1, n) : n \in 1..Len(text)}

ToolTexts ==
    ArrayTexts \cup ScalarTexts
    \cup {<<"noise">> \o a \o <<"noise">> : a \in ArrayTexts}
    \cup {WrapText(a) : a \in ArrayTexts \cup ScalarTexts}
    \cup {WrapText(<<"noise">> \o a \o <<"noise">>) : a \in ArrayTexts}
    \cup {<<"{", "resp:">> \o a \o <<"}">> : a \in SmallArrays}
    \cup {a \o <<"noise">> \o b : a \in SmallArrays, b \in SmallArrays}
    \cup {WrapText(a \o <<"noise">> \o b) : a \in SmallArrays, b \in SmallArrays}
    \cup UNION {Prefixes(a) : a \in SmallArrays}
    \cup UNION {Prefixes(WrapText(a)) : a \in SmallArrays}
    \cup {<<"{", "fnd:">> \o a \o <<"}">> : a \in SmallArrays}
    \cup {<<"{", "resp:", "Q", "noise", "Q", ",", "fnd:">> \o a \o <<"}">> :
              a \in SmallArrays}
    \cup {<<"Q">> \o EscText(a) \o <<"Q">> : a \in SmallArrays}


(***************************************************************************)
(* Part 4.  PR locators, parsePRUrl and the workspace path.                *)
(* A locator is the sequence of its segments between "/" characters.       *)
(***************************************************************************)

\* Segments that end with the characters github.com.
HostSegs == {"github.com", "notgithub.com"}

\* parseInt of the digits a segment starts with, -1 when it starts with none.
LeadingDigits(seg) ==
    CASE seg \in {"1", "01", "1x"} -> 1
      [] seg = "2" -> 2
      [] OTHER -> -1

\* Locators a client submits.
Urls ==
    { <<"https:", "", "github.com", "a-b", "c", "pull", "1">>,
      <<"https:", "", "github.com", "a", "b-c", "pull", "1">>,
      <<"https:", "", "github.com", "a", "b", "pull", "2">>,
      <<"https:", "", "github.com", "a", "pull", "1">>,
      <<"https:", "", "github.com", "a", "b">>,
      <<>> }

\* prUrl.includes('github.com') (index.ts 31)
IncludesHost(url) == \E i \in 1..Len(url) : url[i] \in HostSegs

\* prUrl.includes('/pull/') (index.ts 31)
IncludesPull(url) == \E i \in 2..(Len(url) - 1) : url[i] = "pull"

\* Positions where /github\.com\/([^\/]+)\/([^\/]+)\/pull\/(\d+)/ matches.
MatchPositions(url) ==
    { i \in 1..(Len(url) - 4) :
        /\ url[i] \in HostSegs
        /\ url[i + 1] # ""
        /\ url[i + 2] # ""
        /\ url[i + 3] = "pull"
        /\ LeadingDigits(url[i + 4]) >= 0 }

NoPRInfo == [ok |-> FALSE, owner |-> "", repo |-> "", pullNumber |-> 0]

\* parsePRUrl (gemini-cli.ts 26-40, github.ts 18-31); ok = FALSE is the throw.
ParsePRUrl(url) ==
    IF MatchPositions(url) = {} THEN NoPRInfo
    ELSE LET i == CHOOSE x \in MatchPositions(url) : \A y \in MatchPositions(url) : x <= y
         IN  [ok |-> TRUE, owner |-> url[i + 1], repo |-> url[i + 2],
              pullNumber |-> LeadingDigits(url[i + 4])]

\* join(TEMP_DIR, `${owner}-${repo}-pr${pullNumber}`) (gemini-cli.ts 46)
RepoDir(prInfo) ==
    prInfo.owner \o "-" \o prInfo.repo \o "-pr" \o ToString(prInfo.pullNumber)

\* Every workspace path a submitted locator leads to.
Paths == {RepoDir(ParsePRUrl(u)) : u \in {x \in Urls : ParsePRUrl(x).ok}}


(***************************************************************************)
(* Part 5.  generateDraftComment (Agent.md 408-442), called by the handler.*)
(***************************************************************************)

\* finding.evidence in JavaScript, for a finding that is not null.
PropEvidence(finding) ==
    IF finding.k # "obj" \/ MembersAt(finding, {"ev:"}) = {} THEN Undefined
    ELSE LastMember(finding, {"ev:"}).items[1]

\* The TypeErrors of the loop body: a property read of null or undefined.
DraftThrowsOn(finding) ==
    \/ finding.k = "null"
    \/ PropEvidence(finding).k \in {"undefined", "null"}
    \/ /\ PropEvidence(finding).k = "arr"
       /\ Len(PropEvidence(finding).items) > 0
       /\ PropEvidence(finding).items[1].k = "null"

\* The text of a finding's status member, "undefined" when it has none.
StatusText(finding) ==
    IF finding.k # "obj" \/ MembersAt(finding, {"stFAIL", "stBOGUS"}) = {} THEN "undefined"
    ELSE LastMember(finding, {"stFAIL", "stBOGUS"}).k

\* The lines rendered for one included finding.
FindingLines(finding) ==
    <<IF StatusText(finding) = "stFAIL" THEN "### X " \o StatusText(finding)
      ELSE "### ? " \o StatusText(finding)>>
    \o (IF PropEvidence(finding).k = "arr" /\ Len(PropEvidence(finding).items) > 0
        THEN <<"- File">> ELSE <<>>)
    \o <<"">>

RECURSIVE ConcatLines(_)
ConcatLines(findings) ==
    IF Len(findings) = 0 THEN <<>>
    ELSE FindingLines(Head(findings)) \o ConcatLines(Tail(findings))

NoIssuesComment == <<"## PR Review", "", "No issues found.">>

\* generateDraftComment(findings): the tool sets no userDecision, so every
\* finding it printed is included.
GenerateDraftComment(findings) ==
    IF \E j \in 1..Len(findings) : DraftThrowsOn(findings[j])
    THEN [threw |-> TRUE, text |-> <<>>]
    ELSE IF Len(findings) = 0 THEN [threw |-> FALSE, text |-> NoIssuesComment]
    ELSE [threw |-> FALSE, text |-> <<"## PR Review Summary", "">> \o ConcatLines(findings)]

NoIssuesTalkScript == "No issues found in this pull request. Everything looks good!"

(***************************************************************************)
(* Part 6.  The review pipeline: the submit-pr handler (index.ts 19-92)    *)
(* and reviewWithGeminiCLI (gemini-cli.ts 291-327), run by concurrent      *)
(* requests over one file system.  File-system calls succeed whenever the  *)
(* path they need exists; external processes and network calls may fail.   *)
(***************************************************************************)

\* The requests in flight at once.
Reviews == {1, 2}

\* Outputs the tool prints in the pipeline.
PipelineTexts ==
    { <<"noise">>,
      WrapText(<<"noise">> \o ArrText(<<FindingText("idF1", "stFAIL", "cf5", EvOne)>>)),
      ArrText(<<FindingText("idF1", "stBOGUS", "cf5", EvEmpty),
                FindingText("idF2", "stFAIL", "cf15", EvEmpty)>>),
      ArrText(<<FindingText("idF1", "stFAIL", "cf5", <<>>)>>),
      <<"[", "noise", "]">>,
      <<"[", "{", "idF1", "," >> }

VARIABLES
    pc,        \* pc[r]: the step request r is at
    req,       \* req[r]: the form data of request r
    repoDir,   \* repoDir[r]: the path setupTempDir returned, "" before
    ws,        \* ws[p]: the directory at path p
    out,       \* out[r]: what reviewWithGeminiCLI has computed so far
    inv,       \* inv[r]: how the tool invocation of r ended
    resp,      \* resp[r]: the HTTP response to request r
    intr,      \* the access the last step made to a directory another request cloned
    pphase,    \* runGeminiCLI called on its own: "input" or "returned"
    pin,       \* its exit and standard output
    pout,      \* its result
    cphase,    \* the truncation of createGeminiContext on its own: "input" or "done"
    cdiff,     \* the length of the diff it is given
    cctx,      \* the diff it embeds in the context
    upc,       \* upc[u]: the await call u of uploadToFileSearch is at
    up,        \* up[u]: the locals of call u
    stores,    \* the file search stores that exist in the service
    tmp,       \* tmp[p]: the call whose buffer is in the file at p, 0 for no file
    lphase,    \* parsePRUrl called on its own: "input" or "done"
    lurl,      \* the locator it is given
    linfo,     \* what it returned, ok = FALSE for its throw
    dphase,    \* generateDraftComment called twice: "input", "once" or "twice"
    dorig,     \* the findings as the caller built them
    dfind,     \* the array the caller passes, as it is now
    dfirst,    \* the comment the first call returned
    dsecond,   \* the comment the second call returned
    kpc,       \* kpc[i]: the step run i of the token comparison is at
    ktoken,    \* ktoken[i]: process.env.GITHUB_TOKEN in run i, "" when unset
    kenv,      \* the step that fails in both runs, "none" for no failure
    klog,      \* klog[i]: the lines run i wrote to the console
    kresp,     \* kresp[i]: the response of run i
    currentScreen,  \* App: the screen shown
    reviewResult,   \* App: the result held, NoResult for null
    isLoading,      \* App: the loading flag
    uiError,        \* App: the error shown, "" for null
    inflight,       \* the submit requests whose fetch has not settled
    prUrlInput,     \* UploadScreen: the text of the URL input
    uiFindings,     \* ReviewScreen: the findings state
    uiDraft,        \* ReviewScreen: the draftComment state
    edited,         \* the user has typed in the draft textarea
    strays     \* the files written outside every workspace directory

pipeVars == <<pc, req, repoDir, ws, out, inv, resp, intr>>

parseVars == <<pphase, pin, pout>>

ctxVars == <<cphase, cdiff, cctx>>

upVars == <<upc, up, stores, tmp>>

urlVars == <<lphase, lurl, linfo>>

draftVars == <<dphase, dorig, dfind, dfirst, dsecond>>

tokVars == <<kpc, ktoken, kenv, klog, kresp>>

webVars == <<currentScreen, reviewResult, isLoading, uiError, inflight, prUrlInput,
             uiFindings, uiDraft, edited>>

otherVars == <<pphase, pin, pout, cphase, cdiff, cctx, upc, up, stores, tmp,
               lphase, lurl, linfo, dphase, dorig, dfind, dfirst, dsecond,
               kpc, ktoken, kenv, klog, kresp,
               currentScreen, reviewResult, isLoading, uiError, inflight, prUrlInput,
               uiFindings, uiDraft, edited, strays>>

vars == <<pc, req, repoDir, ws, out, inv, resp, intr, pphase, pin, pout,
          cphase, cdiff, cctx, upc, up, stores, tmp,
          lphase, lurl, linfo, dphase, dorig, dfind, dfirst, dsecond,
          kpc, ktoken, kenv, klog, kresp,
          currentScreen, reviewResult, isLoading, uiError, inflight, prUrlInput,
          uiFindings, uiDraft, edited, strays>>

Absent == [exists |-> FALSE, owner |-> 0, files |-> {}]

\* A directory a crashed earlier run left behind.
Stale == [exists |-> TRUE, owner |-> 0, files |-> {}]

NoReq == [url |-> <<>>, file |-> FALSE]

\* tried: the bases getDiffFromRepo has run git diff against so far.
NoOut == [err |-> "", findings |-> <<>>, diff |-> "", tried |-> <<>>]

NoInv == [exit |-> "none", stdout |-> <<>>]

NoResp == [status |-> 0, error |-> "", prUrl |-> <<>>, findings |-> <<>>,
           talkScript |-> "", draftComment |-> <<>>]

ErrorResp(code, message) == [NoResp EXCEPT !.status = code, !.error = message]

\* The access of r to the directory at p, when another request cloned it.
Intr(r, p, op) ==
    IF ws[p].exists /\ ws[p].owner \notin {0, r}
    THEN {[actor |-> r, victim |-> ws[p].owner, op |-> op]}
    ELSE {}

\* The file system at start: clean, or with leftovers of crashed runs.
InitialWorkspaces == {[p \in Paths |-> Absent], [p \in Paths |-> Stale]}

PipeInit ==
    /\ pc = [r \in Reviews |-> "idle"]
    /\ req = [r \in Reviews |-> NoReq]
    /\ repoDir = [r \in Reviews |-> ""]
    /\ ws \in InitialWorkspaces
    /\ out = [r \in Reviews |-> NoOut]
    /\ inv = [r \in Reviews |-> NoInv]
    /\ resp = [r \in Reviews |-> NoResp]
    /\ intr = {}

ParseIdle ==
    /\ pphase = "idle"
    /\ pin = NoInv
    /\ pout = Returned(<<>>, "none")

\* The diff embedded in the context: the first kept characters of the diff,
\* followed by the truncation marker or not.
Embedded(n, m) == [kept |-> n, marker |-> m]

CtxIdle ==
    /\ cphase = "idle"
    /\ cdiff = 0
    /\ cctx = Embedded(0, FALSE)

\* The calls of uploadToFileSearch in flight at once.
Uploads == {1, 2}

\* Names of uploaded requirement documents.
FileNames == {"a.md", "b.md"}

\* Largest value of Date.now().
MaxClock == 1

\* Agent.md 247: join(TEMP_DIR, `${Date.now()}-${fileName}`)
TempFilePath(now, fileName) == "tmp/" \o ToString(now) \o "-" \o fileName

TmpPaths == {TempFilePath(t, n) : t \in 0..MaxClock, n \in FileNames}

\* The locals of a call: fileName, the store it created (0 for none), the
\* value of Date.now() at line 247, tempFilePath, operation.done, attempts and
\* the message of the error it threw.
NoUp(name) ==
    [fileName |-> name, store |-> 0, now |-> 0, tempFilePath |-> "",
     done |-> FALSE, attempts |-> 0, err |-> ""]

UpIdle ==
    /\ upc = [u \in Uploads |-> "idle"]
    /\ up = [u \in Uploads |-> NoUp("")]
    /\ stores = {}
    /\ tmp = [p \in TmpPaths |-> 0]

UrlIdle ==
    /\ lphase = "idle"
    /\ lurl = <<>>
    /\ linfo = NoPRInfo

DraftIdle ==
    /\ dphase = "idle"
    /\ dorig = <<>>
    /\ dfind = <<>>
    /\ dfirst = <<>>
    /\ dsecond = <<>>

\* The runs of the handler compared for what they disclose.
Runs == {1, 2}

TokIdle ==
    /\ kpc = [i \in Runs |-> "idle"]
    /\ ktoken = [i \in Runs |-> ""]
    /\ kenv = "none"
    /\ klog = [i \in Runs |-> <<>>]
    /\ kresp = [i \in Runs |-> NoResp]

\* reviewResult === null
NoResult == [held |-> FALSE, findings |-> <<>>, draftComment |-> <<>>]

WebIdle ==
    /\ currentScreen = "upload"
    /\ reviewResult = NoResult
    /\ isLoading = FALSE
    /\ uiError = ""
    /\ inflight = 0
    /\ prUrlInput = ""
    /\ uiFindings = <<>>
    /\ uiDraft = <<>>
    /\ edited = FALSE

StrayIdle == strays = {}

Init ==
    /\ PipeInit /\ ParseIdle /\ CtxIdle /\ UpIdle /\ UrlIdle /\ DraftIdle
    /\ TokIdle /\ WebIdle /\ StrayIdle

\* c.json(...): the handler answers and its locals are gone.
Reply(r, response) ==
    /\ resp' = [resp EXCEPT ![r] = response]
    /\ pc' = [pc EXCEPT ![r] = "done"]
    /\ req' = [req EXCEPT ![r] = NoReq]
    /\ repoDir' = [repoDir EXCEPT ![r] = ""]
    /\ out' = [out EXCEPT ![r] = NoOut]
    /\ inv' = [inv EXCEPT ![r] = NoInv]

\* A handler that checks only that prUrl is there.
SubmitNoFormatCheck(r) ==
    /\ pc[r] = "idle"
    /\ \E u \in Urls, f \in BOOLEAN :
           IF u = <<>>
           THEN Reply(r, ErrorResp(400, "prUrl is required"))
           ELSE /\ req' = [req EXCEPT ![r] = [url |-> u, file |-> f]]
                /\ pc' = [pc EXCEPT ![r] = "fetch"]
                /\ UNCHANGED <<repoDir, out, inv, resp>>
    /\ intr' = {}
    /\ UNCHANGED <<ws, otherVars>>

\* index.ts 21-35: the checks of the handler before any await on GitHub.
Submit(r) ==
    /\ pc[r] = "idle"
    /\ \E u \in Urls, f \in BOOLEAN :
           IF u = <<>>
           THEN Reply(r, ErrorResp(400, "prUrl is required"))
           ELSE IF ~IncludesHost(u) \/ ~IncludesPull(u)
           THEN Reply(r, ErrorResp(400, "Invalid GitHub PR URL format"))
           ELSE /\ req' = [req EXCEPT ![r] = [url |-> u, file |-> f]]
                /\ pc' = [pc EXCEPT ![r] = "fetch"]
                /\ UNCHANGED <<repoDir, out, inv, resp>>
    /\ intr' = {}
    /\ UNCHANGED <<ws, otherVars>>

\* index.ts 42 with github.ts 64-99 and the catch of index.ts 86-91.
FetchPRDetails(r) ==
    /\ pc[r] = "fetch"
    /\ IF ~ParsePRUrl(req[r].url).ok
       THEN Reply(r, ErrorResp(500, "Invalid GitHub PR URL"))
       ELSE \E ok \in BOOLEAN :
            IF ok
            THEN /\ pc' = [pc EXCEPT ![r] = "setup"]
                 /\ UNCHANGED <<req, repoDir, out, inv, resp>>
            ELSE Reply(r, ErrorResp(500, "Failed to fetch PR details"))
    /\ intr' = {}
    /\ UNCHANGED <<ws, otherVars>>

\* A setupTempDir that leaves a directory it finds.
SetupTempDirKeep(r) ==
    /\ pc[r] = "setup"
    /\ LET prInfo == ParsePRUrl(req[r].url)
           p == RepoDir(prInfo)
       IN  IF ~prInfo.ok
           THEN /\ out' = [out EXCEPT ![r].err = "Invalid GitHub PR URL"]
                /\ pc' = [pc EXCEPT ![r] = "respond"]
                /\ intr' = {}
                /\ UNCHANGED <<repoDir, ws>>
           ELSE /\ repoDir' = [repoDir EXCEPT ![r] = p]
                /\ ws' = ws
                /\ intr' = {}
                /\ pc' = [pc EXCEPT ![r] = "clone"]
                /\ out' = out
    /\ UNCHANGED <<req, inv, resp, otherVars>>

\* gemini-cli.ts 298-299 with setupTempDir (45-59).
SetupTempDir(r) ==
    /\ pc[r] = "setup"
    /\ LET prInfo == ParsePRUrl(req[r].url)
           p == RepoDir(prInfo)
       IN  IF ~prInfo.ok
           THEN /\ out' = [out EXCEPT ![r].err = "Invalid GitHub PR URL"]
                /\ pc' = [pc EXCEPT ![r] = "respond"]
                /\ intr' = {}
                /\ UNCHANGED <<repoDir, ws>>
           ELSE /\ repoDir' = [repoDir EXCEPT ![r] = p]
                /\ ws' = [ws EXCEPT ![p] = Absent]
                /\ intr' = Intr(r, p, "remove")
                /\ pc' = [pc EXCEPT ![r] = "clone"]
                /\ out' = out
    /\ UNCHANGED <<req, inv, resp, otherVars>>

\* A failing step that leaves the function at once, with no finally block.
FailNoFinally(r, message) ==
    /\ out' = [out EXCEPT ![r].err = message]
    /\ pc' = [pc EXCEPT ![r] = "respond"]

\* A step inside the try block failed: control goes to the finally block.
Fail(r, message) ==
    /\ out' = [out EXCEPT ![r].err = message]
    /\ pc' = [pc EXCEPT ![r] = "cleanup"]

\* gemini-cli.ts 77: git clone --depth 50 <cloneUrl> <repoDir>.  git refuses
\* a destination that exists and is not empty, and removes what it created
\* when it fails.
Clone(r) ==
    /\ pc[r] = "clone"
    /\ LET p == repoDir[r]
       IN  IF ws[p].exists
           THEN Fail(r, "git clone failed") /\ ws' = ws
           ELSE \E ok \in BOOLEAN :
                IF ok
                THEN /\ ws' = [ws EXCEPT ![p] = [exists |-> TRUE, owner |-> r, files |-> {}]]
                     /\ pc' = [pc EXCEPT ![r] = "fetchpr"]
                     /\ out' = out
                ELSE Fail(r, "git clone failed") /\ ws' = ws
    /\ intr' = {}
    /\ UNCHANGED <<req, repoDir, inv, resp, otherVars>>

\* A fetch after which the diff is taken at once, with no checkout.
FetchPRThenDiff(r) ==
    /\ pc[r] = "fetchpr"
    /\ LET p == repoDir[r]
       IN  /\ intr' = Intr(r, p, "write")
           /\ IF ~ws[p].exists
              THEN Fail(r, "git fetch failed")
              ELSE \E ok \in BOOLEAN :
                   IF ok THEN pc' = [pc EXCEPT ![r] = "diffMain"] /\ out' = out
                   ELSE Fail(r, "git fetch failed")
    /\ UNCHANGED <<req, repoDir, ws, inv, resp, otherVars>>

\* gemini-cli.ts 81: git fetch origin pull/<n>/head:pr-<n> with cwd repoDir.
FetchPR(r) ==
    /\ pc[r] = "fetchpr"
    /\ LET p == repoDir[r]
       IN  /\ intr' = Intr(r, p, "write")
           /\ IF ~ws[p].exists
              THEN Fail(r, "git fetch failed")
              ELSE \E ok \in BOOLEAN :
                   IF ok THEN pc' = [pc EXCEPT ![r] = "checkout"] /\ out' = out
                   ELSE Fail(r, "git fetch failed")
    /\ UNCHANGED <<req, repoDir, ws, inv, resp, otherVars>>

\* gemini-cli.ts 84: git checkout pr-<n> with cwd repoDir.
Checkout(r) ==
    /\ pc[r] = "checkout"
    /\ LET p == repoDir[r]
       IN  /\ intr' = Intr(r, p, "write")
           /\ IF ~ws[p].exists
              THEN Fail(r, "git checkout failed")
              ELSE \E ok \in BOOLEAN :
                   IF ok THEN pc' = [pc EXCEPT ![r] = "copyreq"] /\ out' = out
                   ELSE Fail(r, "git checkout failed")
    /\ UNCHANGED <<req, repoDir, ws, inv, resp, otherVars>>

\* gemini-cli.ts 306-309 with copyRequirementFile (112-121).
CopyRequirement(r) ==
    /\ pc[r] = "copyreq"
    /\ LET p == repoDir[r]
       IN  IF ~req[r].file
           THEN /\ pc' = [pc EXCEPT ![r] = "diffMain"]
                /\ intr' = {}
                /\ UNCHANGED <<out, ws>>
           ELSE IF ~ws[p].exists
           THEN Fail(r, "ENOENT: requirement file") /\ intr' = {} /\ ws' = ws
           ELSE /\ ws' = [ws EXCEPT ![p].files = @ \cup {"REQUIREMENTS"}]
                /\ intr' = Intr(r, p, "write")
                /\ pc' = [pc EXCEPT ![r] = "diffMain"]
                /\ out' = out
    /\ UNCHANGED <<req, repoDir, inv, resp, otherVars>>

\* One attempt of getDiffFromRepo: git diff against base with cwd repoDir.
\* It returns the diff, or goes on to onFail.
DiffAttempt(r, at, base, onFail) ==
    /\ pc[r] = at
    /\ LET p == repoDir[r]
       IN  /\ intr' = Intr(r, p, "read")
           /\ \E ok \in BOOLEAN :
              IF ok /\ ws[p].exists
              THEN /\ out' = [out EXCEPT ![r].diff = base,
                                        ![r].tried = Append(@, base)]
                   /\ pc' = [pc EXCEPT ![r] = "context"]
              ELSE IF onFail = "throw"
              THEN /\ out' = [out EXCEPT ![r].err = "git diff failed",
                                        ![r].tried = Append(@, base)]
                   /\ pc' = [pc EXCEPT ![r] = "cleanup"]
              ELSE /\ pc' = [pc EXCEPT ![r] = onFail]
                   /\ out' = [out EXCEPT ![r].tried = Append(@, base)]
    /\ UNCHANGED <<req, repoDir, ws, inv, resp, otherVars>>

\* A first attempt whose failure goes on to the previous commit at once.
DiffMainThenPrev(r) == DiffAttempt(r, "diffMain", "origin/main", "diffPrev")

\* gemini-cli.ts 94-96
DiffMain(r) == DiffAttempt(r, "diffMain", "origin/main", "diffMaster")

\* gemini-cli.ts 98-100
DiffMaster(r) == DiffAttempt(r, "diffMaster", "origin/master", "diffPrev")

\* A last attempt whose failure is swallowed: the pipeline goes on with no diff.
DiffPrevSwallow(r) == DiffAttempt(r, "diffPrev", "HEAD~1", "context")

\* gemini-cli.ts 102-104
DiffPrev(r) == DiffAttempt(r, "diffPrev", "HEAD~1", "throw")

\* gemini-cli.ts 316 with createGeminiContext (126-183); the diff is a local
\* that is not used after this call.
CreateContext(r) ==
    /\ pc[r] = "context"
    /\ LET p == repoDir[r]
       IN  IF ~ws[p].exists
           THEN /\ out' = [out EXCEPT ![r].err = "ENOENT: GEMINI.md",
                                     ![r].diff = "", ![r].tried = <<>>]
                /\ pc' = [pc EXCEPT ![r] = "cleanup"]
                /\ intr' = {}
                /\ ws' = ws
           ELSE /\ ws' = [ws EXCEPT ![p].files = @ \cup {"GEMINI.md"}]
                /\ intr' = Intr(r, p, "write")
                /\ pc' = [pc EXCEPT ![r] = "tool"]
                /\ out' = [out EXCEPT ![r].diff = "", ![r].tried = <<>>]
    /\ UNCHANGED <<req, repoDir, inv, resp, otherVars>>

\* gemini-cli.ts 319 with runGeminiCLI (188-276).  With no directory at cwd
\* the subprocess cannot start: an error with empty output.
RunTool(r) ==
    /\ pc[r] = "tool"
    /\ LET p == repoDir[r]
       IN  /\ intr' = Intr(r, p, "read")
           /\ \E e \in Exits, t \in PipelineTexts :
              LET exit == IF ws[p].exists THEN e ELSE "fail"
                  stdout == IF ws[p].exists THEN t ELSE <<>>
                  res == RunGeminiCLI(exit, stdout)
              IN  /\ inv' = [inv EXCEPT ![r] = [exit |-> exit, stdout |-> stdout]]
                  /\ out' = [out EXCEPT ![r].findings = res.ret,
                                        ![r].err = IF res.threw THEN "runGeminiCLI threw" ELSE ""]
    /\ pc' = [pc EXCEPT ![r] = "cleanup"]
    /\ UNCHANGED <<req, repoDir, ws, resp, otherVars>>

\* A finally block that removes nothing.
CleanupNoRemove(r) ==
    /\ pc[r] = "cleanup"
    /\ pc' = [pc EXCEPT ![r] = "respond"]
    /\ inv' = [inv EXCEPT ![r].stdout = <<>>]
    /\ intr' = {}
    /\ UNCHANGED <<req, repoDir, ws, out, resp, otherVars>>

\* gemini-cli.ts 323-326 with cleanup (281-286), then the return or rethrow;
\* the output of the subprocess is not kept.
Cleanup(r) ==
    /\ pc[r] = "cleanup"
    /\ LET p == repoDir[r]
       IN  /\ ws' = [ws EXCEPT ![p] = Absent]
           /\ intr' = Intr(r, p, "remove")
    /\ pc' = [pc EXCEPT ![r] = "respond"]
    /\ inv' = [inv EXCEPT ![r].stdout = <<>>]
    /\ UNCHANGED <<req, repoDir, out, resp, otherVars>>

\* A handler that asks the model for the talk script whatever the findings.
RespondAlwaysTalk(r) ==
    /\ pc[r] = "respond"
    /\ LET findings == out[r].findings
           draft == GenerateDraftComment(findings)
       IN  IF out[r].err # ""
           THEN Reply(r, ErrorResp(500, out[r].err))
           ELSE \E talkOk \in BOOLEAN :
                IF ~talkOk
                THEN Reply(r, ErrorResp(500, "generateTalkScript failed"))
                ELSE IF draft.threw
                THEN Reply(r, ErrorResp(500, "TypeError"))
                ELSE Reply(r, [status |-> 200, error |-> "", prUrl |-> req[r].url,
                               findings |-> findings,
                               talkScript |-> "generated",
                               draftComment |-> draft.text])
    /\ intr' = {}
    /\ UNCHANGED <<ws, otherVars>>

\* index.ts 66-91: the rest of the handler, and its catch block.
Respond(r) ==
    /\ pc[r] = "respond"
    /\ LET findings == out[r].findings
           draft == GenerateDraftComment(findings)
       IN  IF out[r].err # ""
           THEN Reply(r, ErrorResp(500, out[r].err))
           ELSE \E talkOk \in BOOLEAN :
                IF Len(findings) > 0 /\ ~talkOk
                THEN Reply(r, ErrorResp(500, "generateTalkScript failed"))
                ELSE IF draft.threw
                THEN Reply(r, ErrorResp(500, "TypeError"))
                ELSE Reply(r, [status |-> 200, error |-> "", prUrl |-> req[r].url,
                               findings |-> findings,
                               talkScript |-> IF Len(findings) > 0 THEN "generated"
                                              ELSE NoIssuesTalkScript,
                               draftComment |-> draft.text])
    /\ intr' = {}
    /\ UNCHANGED <<ws, otherVars>>

Next ==
    \E r \in Reviews :
        \/ Submit(r)
        \/ FetchPRDetails(r)
        \/ SetupTempDir(r)
        \/ Clone(r)
        \/ FetchPR(r)
        \/ Checkout(r)
        \/ CopyRequirement(r)
        \/ DiffMain(r)
        \/ DiffMaster(r)
        \/ DiffPrev(r)
        \/ CreateContext(r)
        \/ RunTool(r)
        \/ Cleanup(r)
        \/ Respond(r)

Spec == Init /\ [][Next]_vars

\* A git subprocess that never exits: exec is given no timeout at
\* gemini-cli.ts 77, 81, 84 and 94-103, so the await never settles.
Hang(r) ==
    /\ pc[r] \in {"clone", "fetchpr", "checkout", "diffMain", "diffMaster", "diffPrev"}
    /\ pc' = [pc EXCEPT ![r] = "hung"]
    /\ intr' = {}
    /\ UNCHANGED <<req, repoDir, ws, out, inv, resp, otherVars>>

\* The steps of request r after its submission.
Progress(r) ==
    \/ FetchPRDetails(r)
    \/ SetupTempDir(r)
    \/ Clone(r)
    \/ FetchPR(r)
    \/ Checkout(r)
    \/ CopyRequirement(r)
    \/ DiffMain(r)
    \/ DiffMaster(r)
    \/ DiffPrev(r)
    \/ CreateContext(r)
    \/ RunTool(r)
    \/ Cleanup(r)
    \/ Respond(r)

NextHang ==
    \/ Next
    \/ \E r \in Reviews : Hang(r)

\* The pipeline with subprocesses that may hang; every request whose next
\* step can be taken takes it.
SpecHang ==
    /\ Init
    /\ [][NextHang]_vars
    /\ \A r \in Reviews : WF_vars(Progress(r))

\* gemini-cli.ts 323-326 when rmSync (284) throws, e.g. EACCES or EBUSY:
\* cleanup has no try block, so the error leaves the finally block in place
\* of the value returned or the error thrown before it.  The directory stays.
CleanupThrows(r) ==
    /\ pc[r] = "cleanup"
    /\ ws[repoDir[r]].exists
    /\ out' = [out EXCEPT ![r].err = "rmSync failed", ![r].findings = <<>>]
    /\ pc' = [pc EXCEPT ![r] = "respond"]
    /\ inv' = [inv EXCEPT ![r].stdout = <<>>]
    /\ intr' = {}
    /\ UNCHANGED <<req, repoDir, ws, resp, otherVars>>

NextRm ==
    \/ Next
    \/ \E r \in Reviews : CleanupThrows(r)

\* The pipeline on a file system where removing a directory may fail.
SpecRm == Init /\ [][NextRm]_vars

(***************************************************************************)
(* Part 7.  runGeminiCLI on its own, over every output of ToolTexts.       *)
(***************************************************************************)

InitParse ==
    /\ PipeInit
    /\ CtxIdle
    /\ UpIdle
    /\ UrlIdle
    /\ DraftIdle
    /\ TokIdle
    /\ WebIdle
    /\ StrayIdle
    /\ ws = [p \in Paths |-> Absent]
    /\ pphase = "input"
    /\ pin \in [exit : Exits, stdout : ToolTexts]
    /\ pout = Returned(<<>>, "none")

\* One call of runGeminiCLI.
ParseRun ==
    /\ pphase = "input"
    /\ pout' = RunGeminiCLI(pin.exit, pin.stdout)
    /\ pphase' = "returned"
    /\ UNCHANGED <<pin, pipeVars, ctxVars, upVars, urlVars, draftVars, tokVars, webVars, strays>>

NextParse == ParseRun

SpecParse == InitParse /\ [][NextParse]_vars


(***************************************************************************)
(* Part 8.  The truncation of the diff in createGeminiContext              *)
(* (gemini-cli.ts 133-136) on its own.  A diff is given by its length in   *)
(* UTF-16 code units, the unit of String.length and substring.             *)
(***************************************************************************)

\* gemini-cli.ts 134: the length above which a diff is cut.
DiffLimit == 30000

\* gemini-cli.ts 135: the length of '\n... [diff truncated due to size]'.
MarkerLen == 33

\* How far around 0 and around DiffLimit the diff lengths are taken.
DiffWindow == 60

DiffLens ==
    (0..DiffWindow) \cup ((DiffLimit - DiffWindow)..(DiffLimit + DiffWindow))
        \cup {2 * DiffLimit}

\* The length of s.substring(from, to) for a string of length len, from <= to.
SubstringLen(len, from, to) ==
    (IF to < len THEN to ELSE len) - (IF from < len THEN from ELSE len)

\* A truncation that also cuts a diff of exactly DiffLimit characters.
TruncatedDiffAtLimit(len) ==
    IF len >= DiffLimit
    THEN Embedded(SubstringLen(len, 0, DiffLimit), TRUE)
    ELSE Embedded(len, FALSE)

\* gemini-cli.ts 134-136
TruncatedDiff(len) ==
    IF len > DiffLimit
    THEN Embedded(SubstringLen(len, 0, DiffLimit), TRUE)
    ELSE Embedded(len, FALSE)

\* The length of the embedded diff.
EmbeddedLen(c) == c.kept + (IF c.marker THEN MarkerLen ELSE 0)

InitContext ==
    /\ PipeInit
    /\ ParseIdle
    /\ UpIdle
    /\ UrlIdle
    /\ DraftIdle
    /\ TokIdle
    /\ WebIdle
    /\ StrayIdle
    /\ ws = [p \in Paths |-> Absent]
    /\ cphase = "input"
    /\ cdiff \in DiffLens
    /\ cctx = Embedded(0, FALSE)

\* One evaluation of lines 134-136.
TruncateRun ==
    /\ cphase = "input"
    /\ cctx' = TruncatedDiff(cdiff)
    /\ cphase' = "done"
    /\ UNCHANGED <<cdiff, pipeVars, parseVars, upVars, urlVars, draftVars, tokVars, webVars, strays>>

NextContext == TruncateRun

SpecContext == InitContext /\ [][NextContext]_vars

(***************************************************************************)
(* Part 9.  uploadToFileSearch (Agent.md 231-288), two calls in flight.    *)
(* A step is what one call runs, without interruption, when the promise it *)
(* awaits settles.  Service calls may fail; local file calls do not.       *)
(***************************************************************************)

\* Agent.md 265: maxAttempts.
MaxAttempts == 30

InitUpload ==
    /\ PipeInit
    /\ ParseIdle
    /\ CtxIdle
    /\ UrlIdle
    /\ DraftIdle
    /\ TokIdle
    /\ WebIdle
    /\ StrayIdle
    /\ ws = [p \in Paths |-> Absent]
    /\ upc = [u \in Uploads |-> "create"]
    /\ up \in {[u \in Uploads |-> NoUp(f[u])] : f \in [Uploads -> FileNames]}
    /\ stores = {}
    /\ tmp = [p \in TmpPaths |-> 0]

\* Values Date.now() may return: never less than one it returned before.
Now == {t \in 0..MaxClock : \A v \in Uploads : up[v].now <= t}

\* A finally block that leaves the file.
FinallyBlockNoUnlink(files, path) == files

\* Agent.md 281-287: the finally block.
FinallyBlock(files, path) ==
    IF files[path] # 0 THEN [files EXCEPT ![path] = 0] ELSE files

\* A loop that allows one poll more.
LoopContinuesOnceMore(done, attempts) == ~done /\ attempts <= MaxAttempts

\* A loop that polls on until the attempts are used up.
LoopContinuesWhenDone(done, attempts) == attempts < MaxAttempts

\* Agent.md 267: the condition of the while loop.
LoopContinues(done, attempts) == ~done /\ attempts < MaxAttempts

\* Agent.md 274-279: the error thrown after the loop, "" for a return.
AfterLoop(done) == IF ~done THEN "File processing timeout" ELSE ""

\* The call leaves the try block, by return (message "") or by throw.
Leave(u, done, attempts, message) ==
    /\ tmp' = FinallyBlock(tmp, up[u].tempFilePath)
    /\ upc' = [upc EXCEPT ![u] = IF message = "" THEN "returned" ELSE "thrown"]
    /\ up' = [up EXCEPT ![u].done = done, ![u].attempts = attempts,
                        ![u].err = message]

\* The loop test with operation and attempts as given, and what follows it
\* up to the next await.
LoopTest(u, done, attempts) ==
    IF LoopContinues(done, attempts)
    THEN /\ upc' = [upc EXCEPT ![u] = "poll"]
         /\ up' = [up EXCEPT ![u].done = done, ![u].attempts = attempts]
         /\ tmp' = tmp
    ELSE Leave(u, done, attempts, AfterLoop(done))

\* Agent.md 240-260: fileSearchStores.create settles; on success the buffer
\* is written to the temp file and the upload is started.
CreateSettles(u) ==
    /\ upc[u] = "create"
    /\ \E ok \in BOOLEAN :
       IF ok
       THEN \E t \in Now :
            /\ stores' = stores \cup {u}
            /\ tmp' = [tmp EXCEPT ![TempFilePath(t, up[u].fileName)] = u]
            /\ up' = [up EXCEPT ![u].store = u, ![u].now = t,
                         ![u].tempFilePath = TempFilePath(t, up[u].fileName)]
            /\ upc' = [upc EXCEPT ![u] = "upload"]
       ELSE /\ upc' = [upc EXCEPT ![u] = "thrown"]
            /\ up' = [up EXCEPT ![u].err = "create failed"]
            /\ UNCHANGED <<stores, tmp>>
    /\ UNCHANGED <<pipeVars, parseVars, ctxVars, urlVars, draftVars, tokVars, webVars, strays>>

\* Agent.md 254-276: uploadToFileSearchStore settles.
UploadSettles(u) ==
    /\ upc[u] = "upload"
    /\ \E ok \in BOOLEAN, done \in BOOLEAN :
       IF ok THEN LoopTest(u, done, 0)
       ELSE Leave(u, FALSE, 0, "upload failed")
    /\ UNCHANGED <<stores, pipeVars, parseVars, ctxVars, urlVars, draftVars, tokVars, webVars, strays>>

\* Agent.md 268-276: the sleep and operations.get settle.
PollSettles(u) ==
    /\ upc[u] = "poll"
    /\ \E ok \in BOOLEAN, done \in BOOLEAN :
       IF ok THEN LoopTest(u, done, up[u].attempts + 1)
       ELSE Leave(u, up[u].done, up[u].attempts, "poll failed")
    /\ UNCHANGED <<stores, pipeVars, parseVars, ctxVars, urlVars, draftVars, tokVars, webVars, strays>>

NextUpload ==
    \E u \in Uploads :
        \/ CreateSettles(u)
        \/ UploadSettles(u)
        \/ PollSettles(u)

SpecUpload == InitUpload /\ [][NextUpload]_vars

\* Every awaited call settles.
SpecUploadFair ==
    /\ SpecUpload
    /\ \A u \in Uploads :
         /\ WF_vars(CreateSettles(u))
         /\ WF_vars(UploadSettles(u))
         /\ WF_vars(PollSettles(u))


(***************************************************************************)
(* Part 10.  parsePRUrl on its own, over locators of every shape.          *)
(***************************************************************************)

\* Locators with and without a scheme, a pull segment, an id and a tail.
UrlInputs ==
    LET Schemes == {<<>>, <<"https:", "">>}
        LocatorHosts == {"github.com", "notgithub.com", "gitlab.com"}
        NameSegs == {"a", "b", ""}
        KindSegs == {"pull", "issues"}
        IdSegs == {"1", "01", "1x", "2", "x", ""}
        Tails == {<<>>, <<"files">>}
    IN  { sch \o <<h, o, rp, k, n>> \o t :
            sch \in Schemes, h \in LocatorHosts, o \in NameSegs, rp \in NameSegs,
            k \in KindSegs, n \in IdSegs, t \in Tails }
        \cup { sch \o <<h, o, rp>> : sch \in Schemes, h \in LocatorHosts,
                                      o \in NameSegs, rp \in NameSegs }
        \cup { <<>> }

InitUrl ==
    /\ PipeInit
    /\ ParseIdle
    /\ CtxIdle
    /\ UpIdle
    /\ DraftIdle
    /\ TokIdle
    /\ WebIdle
    /\ StrayIdle
    /\ ws = [p \in Paths |-> Absent]
    /\ lphase = "input"
    /\ lurl \in UrlInputs
    /\ linfo = NoPRInfo

\* One call of parsePRUrl.
ParseLocator ==
    /\ lphase = "input"
    /\ linfo' = ParsePRUrl(lurl)
    /\ lphase' = "done"
    /\ UNCHANGED <<lurl, pipeVars, parseVars, ctxVars, upVars, draftVars, tokVars, webVars, strays>>

NextUrl == ParseLocator

SpecUrl == InitUrl /\ [][NextUrl]_vars

(***************************************************************************)
(* Part 11.  generateDraftComment (Agent.md 408-442) on findings that      *)
(* carry a decision of the user, called twice on the same array.           *)
(* A finding is a record of the members the function reads; "" is a string *)
(* member that is absent or empty and 0 a line number that is absent, the  *)
(* values the conditions of the function take for false.  The comment is   *)
(* the sequence of its lines; a line keeps the parts the template joins.   *)
(***************************************************************************)

\* Longest array of findings the function is given.
MaxDraft == 2

Decisions == {"", "APPROVED", "DISMISSED", "EDITED"}

Evidence(path, startLine, endLine) ==
    [filePath |-> path, startLine |-> startLine, endLine |-> endLine]

\* Findings of every status, with no, one and two evidence entries, with and
\* without line numbers, reason and suggestion.
FindingShapes ==
    { [status |-> "PASS", summary |-> "s1", evidence |-> <<>>,
       reason |-> "", suggestion |-> ""],
      [status |-> "FAIL", summary |-> "s2",
       evidence |-> <<Evidence("a.ts", 3, 5)>>,
       reason |-> "r2", suggestion |-> "g2"],
      [status |-> "FAIL", summary |-> "s3",
       evidence |-> <<Evidence("a.ts", 3, 0), Evidence("b.ts", 7, 9)>>,
       reason |-> "r3", suggestion |-> ""],
      [status |-> "UNKNOWN", summary |-> "s4",
       evidence |-> <<Evidence("a.ts", 0, 5), Evidence("b.ts", 7, 0)>>,
       reason |-> "", suggestion |-> "g4"],
      [status |-> "PASS", summary |-> "s5",
       evidence |-> <<Evidence("a.ts", 0, 0)>>,
       reason |-> "r5", suggestion |-> "g5"] }

DraftFindings ==
    { [status |-> f.status, summary |-> f.summary, evidence |-> f.evidence,
       reason |-> f.reason, suggestion |-> f.suggestion, userDecision |-> d] :
        f \in FindingShapes, d \in Decisions }

DraftInputs == UNION { [1..n -> DraftFindings] : n \in 0..MaxDraft }

\* One line of the comment: what it is, the text before ": ", the text
\* after it, and the line numbers rendered in parentheses.
Line(kind, label, text, range) ==
    [kind |-> kind, label |-> label, text |-> text, range |-> range]

\* A filter that drops only the dismissed findings.
IsIncludedUnlessDismissed(f) == f.userDecision # "DISMISSED"

\* Agent.md 409: f.userDecision === 'APPROVED' || !f.userDecision
IsIncluded(f) == f.userDecision = "APPROVED" \/ f.userDecision = ""

\* A filter that keeps every finding.
ApprovedFindingsAll(findings) == findings

\* Agent.md 409: findings.filter(...)
ApprovedFindings(findings) == SelectSeq(findings, IsIncluded)

\* Agent.md 418; the icons are written [v], [x] and [?].
Icon(status) ==
    CASE status = "PASS" -> "[v]"
      [] status = "FAIL" -> "[x]"
      [] OTHER -> "[?]"

\* Agent.md 424-426: the line numbers after the file path.
LineRange(ev) ==
    IF ev.startLine = 0 THEN <<>>
    ELSE IF ev.endLine = 0 THEN <<ev.startLine>>
    ELSE <<ev.startLine, ev.endLine>>

\* A loop body that renders every evidence entry.
FindingBlockAllEvidence(finding) ==
    <<Line("heading", Icon(finding.status) \o " " \o finding.status, finding.summary, <<>>)>>
    \o [j \in 1..Len(finding.evidence) |->
            Line("file", "File", finding.evidence[j].filePath,
                 LineRange(finding.evidence[j]))]
    \o (IF finding.reason # "" THEN <<Line("reason", "Reason", finding.reason, <<>>)>>
        ELSE <<>>)
    \o (IF finding.suggestion # ""
        THEN <<Line("suggestion", "Suggestion", finding.suggestion, <<>>)>>
        ELSE <<>>)
    \o <<Line("blank", "", "", <<>>)>>

\* Agent.md 417-439: the body of the loop for one finding.
FindingBlock(finding) ==
    <<Line("heading", Icon(finding.status) \o " " \o finding.status, finding.summary, <<>>)>>
    \o (IF Len(finding.evidence) > 0
        THEN <<Line("file", "File", finding.evidence[1].filePath,
                    LineRange(finding.evidence[1]))>>
        ELSE <<>>)
    \o (IF finding.reason # "" THEN <<Line("reason", "Reason", finding.reason, <<>>)>>
        ELSE <<>>)
    \o (IF finding.suggestion # ""
        THEN <<Line("suggestion", "Suggestion", finding.suggestion, <<>>)>>
        ELSE <<>>)
    \o <<Line("blank", "", "", <<>>)>>

RECURSIVE ConcatBlocks(_)
ConcatBlocks(findings) ==
    IF Len(findings) = 0 THEN <<>>
    ELSE FindingBlock(Head(findings)) \o ConcatBlocks(Tail(findings))

\* Agent.md 412: '## PR Review\n\n... No issues found.'
NoIssuesLines ==
    <<Line("title", "", "## PR Review", <<>>), Line("blank", "", "", <<>>),
      Line("text", "[v]", "No issues found.", <<>>)>>

\* Agent.md 415: '## PR Review Summary\n\n'
SummaryTitle ==
    <<Line("title", "", "## PR Review Summary", <<>>), Line("blank", "", "", <<>>)>>

\* A function that tests the array it is given, not the filtered one.
DraftCommentTestsInput(findings) ==
    IF Len(findings) = 0 THEN NoIssuesLines
    ELSE SummaryTitle \o ConcatBlocks(ApprovedFindings(findings))

\* generateDraftComment(findings), Agent.md 408-442.
DraftComment(findings) ==
    IF Len(ApprovedFindings(findings)) = 0 THEN NoIssuesLines
    ELSE SummaryTitle \o ConcatBlocks(ApprovedFindings(findings))

\* A function that filters the array of its caller in place.
FindingsAfterDraftInPlace(findings) == SelectSeq(findings, IsIncluded)

\* The array of the caller after the call: filter (409) builds a new array
\* and the loop (417-439) only reads.
FindingsAfterDraft(findings) == findings

InitDraft ==
    /\ PipeInit
    /\ ParseIdle
    /\ CtxIdle
    /\ UpIdle
    /\ UrlIdle
    /\ TokIdle
    /\ WebIdle
    /\ StrayIdle
    /\ ws = [p \in Paths |-> Absent]
    /\ dphase = "input"
    /\ dorig \in DraftInputs
    /\ dfind = dorig
    /\ dfirst = <<>>
    /\ dsecond = <<>>

\* The first call.
DraftOnce ==
    /\ dphase = "input"
    /\ dfirst' = DraftComment(dfind)
    /\ dfind' = FindingsAfterDraft(dfind)
    /\ dphase' = "once"
    /\ UNCHANGED <<dorig, dsecond, pipeVars, parseVars, ctxVars, upVars, urlVars, tokVars, webVars, strays>>

\* The second call, on the array the first call left.
DraftTwice ==
    /\ dphase = "once"
    /\ dsecond' = DraftComment(dfind)
    /\ dfind' = FindingsAfterDraft(dfind)
    /\ dphase' = "twice"
    /\ UNCHANGED <<dorig, dfirst, pipeVars, parseVars, ctxVars, upVars, urlVars, tokVars, webVars, strays>>

NextDraft ==
    \/ DraftOnce
    \/ DraftTwice

SpecDraft == InitDraft /\ [][NextDraft]_vars

(***************************************************************************)
(* Part 12.  What a review discloses of the GitHub token: two runs of the  *)
(* handler on the same request in the same environment, each with its own  *)
(* value of GITHUB_TOKEN (index.ts 38).                                    *)
(***************************************************************************)

\* Values of process.env.GITHUB_TOKEN; "" is the variable not set.
Tokens == {"", "ghp_A", "ghp_B"}

\* The awaits that may reject, the same one in both runs.
FailingSteps == {"none", "details", "clone", "fetchpr"}

\* gemini-cli.ts 72-75
CloneUrlWithToken(cloneUrl, githubToken) ==
    IF githubToken = "" THEN "https://" \o cloneUrl
    ELSE "https://" \o githubToken \o "@" \o cloneUrl

\* The message of the error promisify(exec) rejects with: the command line
\* and the standard error of the subprocess.
ExecErrorMessage(cmd, stderr) == "Command failed: " \o cmd \o "\n" \o stderr

\* index.ts 86-91: the catch block of the handler logs the error and answers
\* with its message.
CatchInHandler(i, message) ==
    /\ klog' = [klog EXCEPT ![i] = Append(@, "[submit-pr] Error: " \o message)]
    /\ kresp' = [kresp EXCEPT ![i] = ErrorResp(500, message)]
    /\ kpc' = [kpc EXCEPT ![i] = "done"]

InitToken ==
    /\ PipeInit
    /\ ParseIdle
    /\ CtxIdle
    /\ UpIdle
    /\ UrlIdle
    /\ DraftIdle
    /\ WebIdle
    /\ StrayIdle
    /\ ws = [p \in Paths |-> Absent]
    /\ kpc = [i \in Runs |-> "details"]
    /\ ktoken \in [Runs -> Tokens]
    /\ kenv \in FailingSteps
    /\ klog = [i \in Runs |-> <<"[submit-pr] Processing PR: https://github.com/a/b/pull/1",
                               "[submit-pr] Fetching PR details...">>]
    /\ kresp = [i \in Runs |-> NoResp]

\* index.ts 42-57 and gemini-cli.ts 298-299, 69: fetchPRDetails settles; the
\* token goes into the Authorization header only.
TokFetchDetails(i) ==
    /\ kpc[i] = "details"
    /\ IF kenv = "details"
       THEN CatchInHandler(i, "Failed to fetch PR details: 404 Not Found")
       ELSE /\ klog' = [klog EXCEPT ![i] = @ \o <<"[submit-pr] Reviewing with Gemini CLI...",
                                                  "[gemini-cli] Cloning https://github.com/a/b.git...">>]
            /\ kpc' = [kpc EXCEPT ![i] = "clone"]
            /\ kresp' = kresp
    /\ UNCHANGED <<ktoken, kenv, pipeVars, parseVars, ctxVars, upVars, urlVars, draftVars,
                   webVars, strays>>

\* gemini-cli.ts 77-80: git clone settles.
TokClone(i) ==
    /\ kpc[i] = "clone"
    /\ IF kenv = "clone"
       THEN CatchInHandler(i,
                ExecErrorMessage("git clone --depth 50 "
                                     \o CloneUrlWithToken("github.com/a/b.git", ktoken[i])
                                     \o " temp/a-b-pr1",
                                 "fatal: repository not found"))
       ELSE /\ klog' = [klog EXCEPT ![i] = Append(@, "[gemini-cli] Fetching PR #1...")]
            /\ kpc' = [kpc EXCEPT ![i] = "fetchpr"]
            /\ kresp' = kresp
    /\ UNCHANGED <<ktoken, kenv, pipeVars, parseVars, ctxVars, upVars, urlVars, draftVars,
                   webVars, strays>>

\* gemini-cli.ts 81-86: git fetch settles; on failure the finally block
\* (323-326) removes the clone before the handler catches.
TokFetchPR(i) ==
    /\ kpc[i] = "fetchpr"
    /\ IF kenv = "fetchpr"
       THEN /\ klog' = [klog EXCEPT ![i] =
                           @ \o <<"[gemini-cli] Cleaned up temp/a-b-pr1",
                                  "[submit-pr] Error: "
                                      \o ExecErrorMessage("git fetch origin pull/1/head:pr-1",
                                                          "fatal: couldn't find remote ref")>>]
            /\ kresp' = [kresp EXCEPT ![i] =
                            ErrorResp(500, ExecErrorMessage("git fetch origin pull/1/head:pr-1",
                                                            "fatal: couldn't find remote ref"))]
            /\ kpc' = [kpc EXCEPT ![i] = "done"]
       ELSE /\ klog' = [klog EXCEPT ![i] = Append(@, "[gemini-cli] Repository ready at temp/a-b-pr1")]
            /\ kpc' = [kpc EXCEPT ![i] = "review"]
            /\ kresp' = kresp
    /\ UNCHANGED <<ktoken, kenv, pipeVars, parseVars, ctxVars, upVars, urlVars, draftVars,
                   webVars, strays>>

\* gemini-cli.ts 305-326 and index.ts 66-84: the rest of the review, which
\* is not given the token.
TokReview(i) ==
    /\ kpc[i] = "review"
    /\ klog' = [klog EXCEPT ![i] = @ \o <<"[gemini-cli] Cleaned up temp/a-b-pr1",
                                          "[submit-pr] Found 0 findings">>]
    /\ kresp' = [kresp EXCEPT ![i] =
                    [status |-> 200, error |-> "",
                     prUrl |-> <<"https:", "", "github.com", "a", "b", "pull", "1">>,
                     findings |-> <<>>, talkScript |-> NoIssuesTalkScript,
                     draftComment |-> NoIssuesComment]]
    /\ kpc' = [kpc EXCEPT ![i] = "done"]
    /\ UNCHANGED <<ktoken, kenv, pipeVars, parseVars, ctxVars, upVars, urlVars, draftVars,
                   webVars, strays>>

NextToken ==
    \E i \in Runs :
        \/ TokFetchDetails(i)
        \/ TokClone(i)
        \/ TokFetchPR(i)
        \/ TokReview(i)

SpecToken == InitToken /\ [][NextToken]_vars

(***************************************************************************)
(* Part 13.  The web app (part_000): App, UploadScreen and ReviewScreen.   *)
(* A step is one event handler, or the part of handleSubmit that runs when *)
(* its fetch settles; React renders between events, so a button is the one *)
(* rendered from the state before the event.                               *)
(***************************************************************************)

\* Longest findings array of a review result.
MaxShown == 2

FindingIds == {"F1", "F2"}

\* The findings the API returns: no decision yet; ids may repeat.
ShownFindings ==
    { [id |-> i, status |-> f.status, summary |-> f.summary, evidence |-> f.evidence,
       reason |-> f.reason, suggestion |-> f.suggestion, userDecision |-> ""] :
        i \in FindingIds, f \in {g \in FindingShapes : g.summary \in {"s1", "s3"}} }

\* The bodies of the 200 responses, with the draft comment the API derived.
ReviewResults ==
    { [held |-> TRUE, findings |-> fs, draftComment |-> DraftComment(fs)] :
        fs \in UNION { [1..n -> ShownFindings] : n \in 0..MaxShown } }

\* errorData.error || 'Failed to review PR', or the message of a fetch error.
SubmitErrors == {"Failed to review PR", "Invalid GitHub PR URL format", "Failed to fetch"}

\* Texts the user types into the draft textarea.
TypedDrafts == {<<>>, <<Line("text", "", "typed", <<>>)>>}

InitWeb ==
    /\ PipeInit
    /\ ParseIdle
    /\ CtxIdle
    /\ UpIdle
    /\ UrlIdle
    /\ DraftIdle
    /\ TokIdle
    /\ StrayIdle
    /\ ws = [p \in Paths |-> Absent]
    /\ WebIdle

\* part_000 185: onChange of the URL input, disabled while loading.
SetPrUrl ==
    /\ currentScreen = "upload"
    /\ ~isLoading
    /\ \E t \in {"", " ", "u"} : prUrlInput' = t
    /\ UNCHANGED <<currentScreen, reviewResult, isLoading, uiError, inflight,
                   uiFindings, uiDraft, edited>>
    /\ UNCHANGED <<pipeVars, parseVars, ctxVars, upVars, urlVars, draftVars, tokVars, strays>>

\* part_000 121-125, 204-208 and 40-55: a click on the submit button, which
\* is disabled when the trimmed URL is empty or isLoading; handleSubmit up
\* to its fetch.
HandleSubmitClick ==
    /\ currentScreen = "upload"
    /\ prUrlInput \notin {"", " "}
    /\ ~isLoading
    /\ isLoading' = TRUE
    /\ uiError' = ""
    /\ inflight' = inflight + 1
    /\ UNCHANGED <<currentScreen, reviewResult, prUrlInput, uiFindings, uiDraft, edited>>
    /\ UNCHANGED <<pipeVars, parseVars, ctxVars, upVars, urlVars, draftVars, tokVars, strays>>

\* part_000 62-64 and 68-70: the response is ok; ReviewScreen mounts with
\* its state taken from the result (239-240) and UploadScreen is gone.
FetchOk ==
    /\ inflight > 0
    /\ \E res \in ReviewResults :
          /\ reviewResult' = res
          /\ uiFindings' = res.findings
          /\ uiDraft' = res.draftComment
    /\ currentScreen' = "review"
    /\ isLoading' = FALSE
    /\ inflight' = inflight - 1
    /\ prUrlInput' = ""
    /\ edited' = FALSE
    /\ UNCHANGED uiError
    /\ UNCHANGED <<pipeVars, parseVars, ctxVars, upVars, urlVars, draftVars, tokVars, strays>>

\* part_000 57-60 and 65-70: the response is not ok, or fetch rejected.
FetchFails ==
    /\ inflight > 0
    /\ \E m \in SubmitErrors : uiError' = m
    /\ isLoading' = FALSE
    /\ inflight' = inflight - 1
    /\ UNCHANGED <<currentScreen, reviewResult, prUrlInput, uiFindings, uiDraft, edited>>
    /\ UNCHANGED <<pipeVars, parseVars, ctxVars, upVars, urlVars, draftVars, tokVars, strays>>

\* A Back that keeps the result.
HandleBackKeepsResult ==
    /\ currentScreen = "review"
    /\ currentScreen' = "upload"
    /\ uiError' = ""
    /\ uiFindings' = <<>>
    /\ uiDraft' = <<>>
    /\ edited' = FALSE
    /\ UNCHANGED <<reviewResult, isLoading, inflight, prUrlInput>>
    /\ UNCHANGED <<pipeVars, parseVars, ctxVars, upVars, urlVars, draftVars, tokVars, strays>>

\* part_000 73-77: handleBack; ReviewScreen unmounts.
HandleBack ==
    /\ currentScreen = "review"
    /\ currentScreen' = "upload"
    /\ reviewResult' = NoResult
    /\ uiError' = ""
    /\ uiFindings' = <<>>
    /\ uiDraft' = <<>>
    /\ edited' = FALSE
    /\ UNCHANGED <<isLoading, inflight, prUrlInput>>
    /\ UNCHANGED <<pipeVars, parseVars, ctxVars, upVars, urlVars, draftVars, tokVars, strays>>

\* A handler that sets the decision of every finding.
SetDecisionOfAll(prev, id, action) ==
    [j \in 1..Len(prev) |-> [prev[j] EXCEPT !.userDecision = action]]

\* part_000 243-245: prev.map(f => f.id === id ? {...f, userDecision} : f)
SetDecision(prev, id, action) ==
    [j \in 1..Len(prev) |->
        IF prev[j].id = id THEN [prev[j] EXCEPT !.userDecision = action] ELSE prev[j]]

\* part_000 242-246 with the buttons of 328-341: Approve or Dismiss on a
\* finding of the list.
HandleFindingAction ==
    /\ currentScreen = "review"
    /\ \E j \in 1..Len(uiFindings), action \in {"APPROVED", "DISMISSED"} :
          uiFindings' = SetDecision(uiFindings, uiFindings[j].id, action)
    /\ UNCHANGED <<currentScreen, reviewResult, isLoading, uiError, inflight, prUrlInput,
                   uiDraft, edited>>
    /\ UNCHANGED <<pipeVars, parseVars, ctxVars, upVars, urlVars, draftVars, tokVars, strays>>

\* part_000 366: onChange of the draft textarea.
EditDraft ==
    /\ currentScreen = "review"
    /\ \E t \in TypedDrafts : uiDraft' = t
    /\ edited' = TRUE
    /\ UNCHANGED <<currentScreen, reviewResult, isLoading, uiError, inflight, prUrlInput,
                   uiFindings>>
    /\ UNCHANGED <<pipeVars, parseVars, ctxVars, upVars, urlVars, draftVars, tokVars, strays>>

NextWeb ==
    \/ SetPrUrl
    \/ HandleSubmitClick
    \/ FetchOk
    \/ FetchFails
    \/ HandleBack
    \/ HandleFindingAction
    \/ EditDraft

SpecWeb == InitWeb /\ [][NextWeb]_vars

(***************************************************************************)
(* Part 14.  The pipeline with the name of the uploaded file: the path     *)
(* copyRequirementFile writes (gemini-cli.ts 112-121).  A name and a path  *)
(* are the sequences of their segments between "/" characters.             *)
(***************************************************************************)

\* requirementFile.name as the multipart body of the request gives it.
RequirementNames ==
    { <<"req.md">>,
      <<"..", "..", "x">>,
      <<"..", "..", "..", "x">> }

\* path.normalize: a ".." segment removes the segment before it.
RECURSIVE Normalize(_, _)
Normalize(done, rest) ==
    IF rest = <<>> THEN done
    ELSE IF Head(rest) = ".."
    THEN Normalize(IF done = <<>> THEN <<>> ELSE SubSeq(done, 1, Len(done) - 1), Tail(rest))
    ELSE Normalize(Append(done, Head(rest)), Tail(rest))

\* gemini-cli.ts 117: join(repoDir, `REQUIREMENTS-${fileName}`), with
\* repoDir = join(TEMP_DIR, dir).
DestPath(dir, fileName) ==
    Normalize(<<>>, <<"temp", dir, "REQUIREMENTS-" \o Head(fileName)>> \o Tail(fileName))

\* The path is that of a file in the directory <<"temp", dir>>.
InsideWorkspace(path, dir) == Len(path) = 3 /\ path[1] = "temp" /\ path[2] = dir

\* gemini-cli.ts 306-309 with copyRequirementFile (112-121), for a file
\* with a name.
CopyRequirementNamed(r) ==
    /\ pc[r] = "copyreq"
    /\ LET p == repoDir[r]
       IN  IF ~req[r].file
           THEN /\ pc' = [pc EXCEPT ![r] = "diffMain"]
                /\ intr' = {}
                /\ UNCHANGED <<out, ws, strays>>
           ELSE \E name \in RequirementNames :
                LET destPath == DestPath(p, name)
                IN  IF InsideWorkspace(destPath, p)
                    THEN IF ~ws[p].exists
                         THEN /\ Fail(r, "ENOENT: requirement file")
                              /\ intr' = {}
                              /\ UNCHANGED <<ws, strays>>
                         ELSE /\ ws' = [ws EXCEPT ![p].files = @ \cup {destPath[3]}]
                              /\ intr' = Intr(r, p, "write")
                              /\ pc' = [pc EXCEPT ![r] = "diffMain"]
                              /\ UNCHANGED <<out, strays>>
                    ELSE /\ strays' = strays \cup {destPath}
                         /\ intr' = {}
                         /\ pc' = [pc EXCEPT ![r] = "diffMain"]
                         /\ UNCHANGED <<out, ws>>
    /\ UNCHANGED <<req, repoDir, inv, resp>>
    /\ UNCHANGED <<parseVars, ctxVars, upVars, urlVars, draftVars, tokVars, webVars>>

NextReq ==
    \E r \in Reviews :
        \/ Submit(r)
        \/ FetchPRDetails(r)
        \/ SetupTempDir(r)
        \/ Clone(r)
        \/ FetchPR(r)
        \/ Checkout(r)
        \/ CopyRequirementNamed(r)
        \/ DiffMain(r)
        \/ DiffMaster(r)
        \/ DiffPrev(r)
        \/ CreateContext(r)
        \/ RunTool(r)
        \/ Cleanup(r)
        \/ Respond(r)

SpecReq == Init /\ [][NextReq]_vars

(***************************************************************************)
(* Part 15.  Properties.                                                   *)
(***************************************************************************)

\* The locator of request r as parsePRUrl reads it.
Ref(r) == ParsePRUrl(req[r].url)

\* No directory that request r cloned exists.
NoDirOwnedBy(r) == \A p \in Paths : ~(ws[p].exists /\ ws[p].owner = r)

\* Some bracketed substring of t is a JSON array.
HasParseableArray(t) ==
    \E i \in 1..Len(t), j \in 1..Len(t) :
        i < j /\ t[i] = "[" /\ t[j] = "]" /\ JSONParse(SubSeq(t, i, j)).ok

\* reviewWithGeminiCLI of request r returns or throws in this step.
Exits_reviewWithGeminiCLI(r) == pc[r] # "respond" /\ pc'[r] = "respond"

\* C1: whenever a run of reviewWithGeminiCLI that got a path from
\* setupTempDir returns or throws, no directory exists at that path.
C1_WorkspaceAbsentOnExit ==
    [][\A r \in Reviews :
          (Exits_reviewWithGeminiCLI(r) /\ repoDir'[r] # "")
              => ~ws'[repoDir'[r]].exists]_vars

\* A review whose tool invocation timed out has returned; its workspace is gone.
C1_Witness ==
    \E r \in Reviews :
        /\ pc[r] = "respond"
        /\ inv[r].exit = "timeout"
        /\ repoDir[r] # ""
        /\ ~ws[repoDir[r]].exists

FatalErrors == {"git clone failed", "git fetch failed", "git checkout failed",
                "git diff failed"}

\* C2: after a fatal error (clone, fetch, checkout or diff) the run leaves no
\* directory it cloned, and the handler answers 500 with that error's message.
C2_FatalSurfacedNoLeftover ==
    /\ [](\A r \in Reviews :
            (pc[r] = "respond" /\ out[r].err \in FatalErrors) => NoDirOwnedBy(r))
    /\ [](\A r \in Reviews :
            (pc[r] = "done" /\ resp[r].error \in FatalErrors) => NoDirOwnedBy(r))
    /\ [][\A r \in Reviews :
            (pc[r] = "respond" /\ pc'[r] = "done" /\ out[r].err \in FatalErrors)
                => resp'[r] = ErrorResp(500, out[r].err)]_vars

\* A review whose checkout failed after a successful clone was answered 500.
C2_Witness ==
    \E r \in Reviews :
        /\ pc[r] = "done"
        /\ resp[r] = ErrorResp(500, "git checkout failed")
        /\ NoDirOwnedBy(r)

\* C3: two requests in flight whose references differ have different
\* workspace paths, and neither accesses a directory the other cloned.
C3_DistinctRefsDistinctPaths ==
    /\ \A r1, r2 \in Reviews :
          (r1 # r2 /\ repoDir[r1] # "" /\ repoDir[r2] # "" /\ Ref(r1) # Ref(r2))
              => repoDir[r1] # repoDir[r2]
    /\ \A e \in intr : Ref(e.actor) = Ref(e.victim)

\* C4: no request removes or writes a directory that another request cloned
\* and has not yet released.
C4_ExclusiveOwnership ==
    \A e \in intr : e.op \notin {"remove", "write"}

\* C5: runGeminiCLI returns and does not throw, whatever the exit and the
\* output; it returns the empty sequence when no stage extracted findings.
C5_NeverThrows ==
    pphase = "returned" =>
        /\ ~pout.threw
        /\ pout.stage \in {"nested", "direct", "raw", "none"}
        /\ (pout.stage = "none" => pout.ret = <<>>)

\* runGeminiCLI returned for an output that parses to null, where reading
\* the response property throws inside the inner try.
C5_Witness ==
    /\ pphase = "returned"
    /\ pin = [exit |-> "ok", stdout |-> <<"null">>]
    /\ pout = Returned(<<>>, "none")

C7_FailureLikeSuccess ==
    (pphase = "returned" /\ pin.exit # "ok")
        => pout.ret = SuccessPath(pin.stdout).ret

\* C7 amended: for every text that is not valid JSON as a whole, the failure
\* path recovers what the success path recovers.
C7_FailureLikeSuccessOnNonJSON ==
    (pphase = "returned" /\ pin.exit # "ok" /\ ~JSONParse(pin.stdout).ok)
        => (~pout.threw /\ pout.ret = SuccessPath(pin.stdout).ret)

\* A failed invocation whose output is an array amid noise returned a finding.
C7_Witness ==
    /\ pphase = "returned"
    /\ pin.exit = "fail"
    /\ ~JSONParse(pin.stdout).ok
    /\ Len(pout.ret) = 1

\* C8: a non-zero exit with no output, or with output holding no parseable
\* bracketed array, yields zero findings and no error, and the handler
\* answers an empty result with 200.
C8_FailedNoUsableOutput ==
    /\ [](\A r \in Reviews :
            (pc[r] = "cleanup" /\ inv[r].exit = "fail"
                /\ ~HasParseableArray(inv[r].stdout))
                => (out[r].findings = <<>> /\ out[r].err = ""))
    /\ [][\A r \in Reviews :
            (pc[r] = "respond" /\ pc'[r] = "done" /\ inv[r].exit = "fail"
                /\ out[r].findings = <<>>)
                => (resp'[r].status = 200 /\ resp'[r].findings = <<>>)]_vars

\* A failed invocation that printed a bracketed non-array returned nothing.
C8_Witness ==
    \E r \in Reviews :
        /\ pc[r] = "cleanup"
        /\ inv[r] = [exit |-> "fail", stdout |-> <<"[", "noise", "]">>]
        /\ out[r] = NoOut

\* C9: every finding runGeminiCLI returns passes the Finding schema.
C9_ReturnedFindingsValid ==
    pphase = "returned" =>
        \A j \in 1..Len(pout.ret) : FindingSchemaOk(pout.ret[j])

\* C10: every finding of a ReviewResult sent to the caller has a confidence
\* in [0,1].
C10_ConfidenceInUnitInterval ==
    \A r \in Reviews :
        (pc[r] = "done" /\ resp[r].status = 200)
            => \A j \in 1..Len(resp[r].findings) : ConfidenceOk(resp[r].findings[j])

(***************************************************************************)
(* The recovery chain of runGeminiCLI, stage by stage.  The stages are     *)
(* characterised here from the text alone.                                 *)
(***************************************************************************)

\* The whole output parses and is a JSON array.
DirectStageOk(t) == JSONParse(t).ok /\ JSONParse(t).v.k = "arr"

\* The text of the response field when the whole output parses to an object
\* whose response field is a non-empty string; <<>> otherwise.
ResponseText(t) ==
    LET p == JSONParse(t)
        js == {j \in 1..Len(p.v.items) : p.v.items[j].k = "resp:"}
        m == p.v.items[CHOOSE x \in js : \A y \in js : y <= x].items[1]
    IN  IF p.ok /\ p.v.k = "obj" /\ js # {} /\ m.k = "str"
        THEN [j \in 1..Len(m.items) |-> m.items[j].k]
        ELSE <<>>

\* The substring of t from its first "[" to its last "]", <<>> if there is none.
WidestBracketed(t) ==
    LET is == {i \in 1..Len(t) : t[i] = "["}
        js == {j \in 1..Len(t) : t[j] = "]"}
        i == CHOOSE x \in is : \A y \in is : x <= y
        j == CHOOSE x \in js : \A y \in js : y <= x
    IN  IF is = {} \/ js = {} THEN <<>>
        ELSE IF j <= i THEN <<>>
        ELSE SubSeq(t, i, j)

\* The substring of t from its first "[" to the first "]" after it.
FirstBracketed(t) ==
    LET is == {i \in 1..Len(t) : t[i] = "["}
        i == CHOOSE x \in is : \A y \in is : x <= y
        js == {j \in 1..Len(t) : t[j] = "]" /\ j > i}
        j == CHOOSE x \in js : \A y \in js : x <= y
    IN  IF is = {} THEN <<>>
        ELSE IF js = {} THEN <<>>
        ELSE SubSeq(t, i, j)

\* The nested-field stage yields: the response text holds a bracketed
\* substring that is valid JSON.
NestedStageOk(t) ==
    WidestBracketed(ResponseText(t)) # <<>>
        /\ JSONParse(WidestBracketed(ResponseText(t))).ok

\* The raw-text scan yields: the first bracketed substring is valid JSON.
RawStageOk(t) == FirstBracketed(t) # <<>> /\ JSONParse(FirstBracketed(t)).ok

\* What the raw-text scan returns.
ScanResult(t) == IF RawStageOk(t) THEN JSONParse(FirstBracketed(t)).v.items ELSE <<>>

\* The inner try block throws: the output is not valid JSON or is null, the
\* response field is neither falsy nor text, or the bracketed substring of
\* the response text is not valid JSON.
ParsingThrows(t) ==
    LET p == JSONParse(t)
        js == {j \in 1..Len(p.v.items) : p.v.items[j].k = "resp:"}
        m == p.v.items[CHOOSE x \in js : \A y \in js : y <= x].items[1]
    IN  \/ ~p.ok
        \/ p.v.k = "null"
        \/ p.v.k = "obj" /\ js # {} /\ m.k \in {"num", "arr", "obj"}
        \/ WidestBracketed(ResponseText(t)) # <<>> /\ ~NestedStageOk(t)

\* A successful invocation has returned.
OkReturned == pphase = "returned" /\ pin.exit = "ok"

\* C11 as stated: whenever neither the nested-field stage nor the
\* direct-array stage yields findings, the result is that of the raw-text
\* scan.
C11_ScanWheneverNoStageYields ==
    (OkReturned /\ ~NestedStageOk(pin.stdout) /\ ~DirectStageOk(pin.stdout))
        => pout = Returned(ScanResult(pin.stdout),
                           IF RawStageOk(pin.stdout) THEN "raw" ELSE "none")

\* C11: when the inner parse throws, the result is that of the raw-text scan
\* (the first bracketed substring, parsed, returned when valid); when the
\* whole output parses and neither the nested-field stage nor the
\* direct-array stage yields findings, the result is the empty sequence and
\* no scan is made.
C11_ScanWhenParsingThrows ==
    (OkReturned /\ ~NestedStageOk(pin.stdout) /\ ~DirectStageOk(pin.stdout))
        => IF ParsingThrows(pin.stdout)
           THEN pout = Returned(ScanResult(pin.stdout),
                                IF RawStageOk(pin.stdout) THEN "raw" ELSE "none")
           ELSE pout = Returned(<<>>, "none")

\* The output is an array between two runs of noise: JSON.parse threw and the
\* scan returned the one finding of the array.
C11_Witness ==
    /\ OkReturned
    /\ pin.stdout = <<"noise">>
                    \o ArrText(<<FindingText("idF1", "stFAIL", "cf5", <<>>)>>)
                    \o <<"noise">>
    /\ pout.stage = "raw"
    /\ Len(pout.ret) = 1

\* The first stage, in the order nested, direct, raw, that yields.
FirstStageOk(t) ==
    IF NestedStageOk(t) THEN "nested"
    ELSE IF DirectStageOk(t) THEN "direct"
    ELSE IF RawStageOk(t) THEN "raw"
    ELSE "none"

\* What stage st yields on t.
StageFindings(t, st) ==
    CASE st = "nested" -> JSONParse(WidestBracketed(ResponseText(t))).v.items
      [] st = "direct" -> JSONParse(t).v.items
      [] st = "raw" -> ScanResult(t)
      [] OTHER -> <<>>

\* C12 as stated: the returned findings are those of the first stage that
\* succeeded, in the order nested field, direct array, raw-text scan, empty.
C12_FirstSuccessfulStage ==
    OkReturned =>
        pout = Returned(StageFindings(pin.stdout, FirstStageOk(pin.stdout)),
                        FirstStageOk(pin.stdout))

\* The first stage that yields among those runGeminiCLI attempts: the
\* raw-text scan is attempted only when the inner parse threw.
FirstAttemptedStageOk(t) ==
    IF NestedStageOk(t) THEN "nested"
    ELSE IF DirectStageOk(t) THEN "direct"
    ELSE IF ParsingThrows(t) /\ RawStageOk(t) THEN "raw"
    ELSE "none"

\* C12: the stages are tried in the order nested field, direct array,
\* raw-text scan, empty; the raw-text scan is tried only when the inner parse
\* threw; the returned findings are those of the first stage tried that
\* succeeded.
C12_FirstAttemptedStage ==
    OkReturned =>
        pout = Returned(StageFindings(pin.stdout, FirstAttemptedStageOk(pin.stdout)),
                        FirstAttemptedStageOk(pin.stdout))

\* The output is directly an array of two findings: the nested-field stage
\* did not apply and the direct stage returned the array.
C12_Witness ==
    /\ OkReturned
    /\ DirectStageOk(pin.stdout)
    /\ ~NestedStageOk(pin.stdout)
    /\ pout.stage = "direct"
    /\ Len(pout.ret) = 2

\* The text holds no "[" that is followed by a "]".
NoBracketed(t) ==
    ~\E i \in 1..Len(t), j \in 1..Len(t) : i < j /\ t[i] = "[" /\ t[j] = "]"

\* The findings of a sequence of finding texts, each parsed on its own.
FindingsOf(fs) == [j \in 1..Len(fs) |-> JSONParse(fs[j]).v]

\* C13: for a successful invocation, a wrapper whose response text is one
\* findings array between noise yields that array's findings, a JSON array
\* yields its elements in order, and an output that is not JSON and holds no
\* bracketed array yields the empty sequence without an error.
C13_WrapperDirectAndNoise ==
    OkReturned =>
        /\ \A fs \in FindingSeqs :
             /\ pin.stdout = WrapText(<<"noise">> \o ArrText(fs) \o <<"noise">>)
                    => (~pout.threw /\ pout.ret = FindingsOf(fs))
             /\ pin.stdout = ArrText(fs)
                    => (~pout.threw /\ pout.ret = FindingsOf(fs))
        /\ (~JSONParse(pin.stdout).ok /\ NoBracketed(pin.stdout))
               => (~pout.threw /\ pout.ret = <<>>)

\* A wrapper whose response text is noise, an array of one finding with
\* evidence, noise: the finding was returned.
C13_Witness ==
    /\ OkReturned
    /\ pin.stdout = WrapText(<<"noise">>
                        \o ArrText(<<FindingText("idF1", "stFAIL", "cf5", EvOne)>>)
                        \o <<"noise">>)
    /\ pout.ret = FindingsOf(<<FindingText("idF1", "stFAIL", "cf5", EvOne)>>)

\* The diff bases in the order of getDiffFromRepo.
DiffBases == <<"origin/main", "origin/master", "HEAD~1">>

\* C14: getDiffFromRepo runs git diff against origin/main, origin/master and
\* HEAD~1 in this order; the diff it returns is that of the last base tried,
\* no base is tried after one succeeded, and when origin/main fails and
\* origin/master succeeds the origin/master diff is returned with no error.
C14_FirstBaseThatSucceeds ==
    /\ [](\A r \in Reviews :
            /\ Len(out[r].tried) <= Len(DiffBases)
            /\ out[r].tried = SubSeq(DiffBases, 1, Len(out[r].tried))
            /\ out[r].diff # ""
                   => /\ out[r].tried # <<>>
                      /\ out[r].diff = out[r].tried[Len(out[r].tried)]
                      /\ pc[r] = "context"
                      /\ out[r].err = ""
            /\ (pc[r] = "context" /\ Len(out[r].tried) = 2)
                   => (out[r].diff = "origin/master" /\ out[r].err = ""))
    /\ [][\A r \in Reviews :
            out[r].diff # "" => out'[r].tried \in {out[r].tried, <<>>}]_vars

\* origin/main failed, origin/master succeeded, and its diff was returned.
C14_Witness ==
    \E r \in Reviews :
        /\ pc[r] = "context"
        /\ out[r].tried = <<"origin/main", "origin/master">>
        /\ out[r].diff = "origin/master"
        /\ out[r].err = ""

\* C15: getDiffFromRepo throws exactly when all three attempts failed; a
\* review in which it threw writes no file, does not invoke the tool, and
\* ends with the error.
C15_DiffFailsIffAllBasesFail ==
    /\ [](\A r \in Reviews :
            /\ out[r].err = "git diff failed"
                   <=> (out[r].tried = DiffBases /\ out[r].diff = "")
            /\ out[r].err = "git diff failed"
                   => (pc[r] \in {"cleanup", "respond"} /\ inv[r] = NoInv))
    /\ [][\A r \in Reviews :
            (out[r].err = "git diff failed" /\ pc'[r] # pc[r])
                => /\ \A p \in Paths : ws'[p].files \subseteq ws[p].files
                   /\ inv'[r] = NoInv
                   /\ pc'[r] \in {"respond", "done"}
                   /\ pc'[r] = "done"
                          => resp'[r] = ErrorResp(500, "git diff failed")]_vars

\* All three attempts failed; the review is about to answer with the error
\* and its tool was not invoked.
C15_Witness ==
    \E r \in Reviews :
        /\ pc[r] = "respond"
        /\ out[r].err = "git diff failed"
        /\ out[r].tried = DiffBases
        /\ inv[r] = NoInv

\* C16: the diff embedded in the context is the whole diff when its length
\* is at most 30,000; a longer diff is cut to its first 30,000 characters
\* followed by the marker; the embedded diff is never longer than 30,000
\* plus the length of the marker.
C16_DiffTruncation ==
    cphase = "done" =>
        /\ cdiff <= DiffLimit => cctx = Embedded(cdiff, FALSE)
        /\ cdiff > DiffLimit => cctx = Embedded(DiffLimit, TRUE)
        /\ EmbeddedLen(cctx) <= DiffLimit + MarkerLen

\* A diff one character over the limit was cut and marked.
C16_Witness ==
    /\ cphase = "done"
    /\ cdiff = DiffLimit + 1
    /\ cctx = Embedded(DiffLimit, TRUE)
    /\ EmbeddedLen(cctx) = DiffLimit + MarkerLen

\* Call u of uploadToFileSearch has returned or thrown.
Ended(u) == upc[u] \in {"returned", "thrown"}

\* C17: a call of uploadToFileSearch polls at most 30 times; it returns only
\* after it saw the operation done; it throws the timeout error exactly when
\* the operation is not done after 30 polls; and, every awaited call
\* settling, it ends.
C17_BoundedPolls ==
    /\ [](\A u \in Uploads :
            /\ up[u].attempts <= MaxAttempts
            /\ upc[u] = "returned" => (up[u].done /\ up[u].err = "")
            /\ Ended(u) =>
                 (up[u].err = "File processing timeout"
                     <=> (upc[u] = "thrown" /\ ~up[u].done
                             /\ up[u].attempts = MaxAttempts)))
    /\ <>(\A u \in Uploads : Ended(u))

\* A call threw the timeout error after its 30th poll.
C17_Witness ==
    \E u \in Uploads :
        /\ upc[u] = "thrown"
        /\ up[u].err = "File processing timeout"
        /\ up[u].attempts = MaxAttempts
        /\ ~up[u].done

\* C19: when a call of uploadToFileSearch returns or throws, the file at its
\* tempFilePath does not exist and no file holds its buffer.
C19_TempFileGoneOnExit ==
    [][\A u \in Uploads :
          (~Ended(u) /\ Ended(u)')
              => /\ \A p \in TmpPaths : tmp'[p] # u
                 /\ up'[u].tempFilePath # "" => tmp'[up'[u].tempFilePath] = 0]_vars

\* A call whose status poll failed has thrown; the file it wrote is gone.
C19_Witness ==
    \E u \in Uploads :
        /\ upc[u] = "thrown"
        /\ up[u].err = "poll failed"
        /\ up[u].tempFilePath # ""
        /\ tmp[up[u].tempFilePath] = 0

\* C20: no store created by a call of uploadToFileSearch that threw remains
\* in existence.
C20_NoStoreAfterFailedCall ==
    \A u \in Uploads : upc[u] = "thrown" => up[u].store \notin stores

\* The stages of reviewWithGeminiCLI in their order; the three diff attempts
\* are one stage.
StageNo(at) ==
    CASE at = "clone" -> 1
      [] at = "fetchpr" -> 2
      [] at = "checkout" -> 3
      [] at = "copyreq" -> 4
      [] at \in {"diffMain", "diffMaster", "diffPrev"} -> 5
      [] at = "context" -> 6
      [] at = "tool" -> 7
      [] at = "cleanup" -> 8
      [] OTHER -> 0

\* The errors of cloneAndCheckoutPR.
AcquisitionErrors == {"git clone failed", "git fetch failed", "git checkout failed"}

\* C21: a step of a review that is at a stage stays in the stage, goes to the
\* next stage, or goes to the release; after the release comes the answer;
\* and a review whose clone, fetch or checkout failed has tried no diff base,
\* has not reached the context or the tool, and has not invoked the tool.
C21_StagesInOrder ==
    /\ [][\A r \in Reviews :
            (StageNo(pc[r]) > 0 /\ pc'[r] # pc[r])
                => IF pc[r] = "cleanup" THEN pc'[r] = "respond"
                   ELSE \/ StageNo(pc'[r]) = StageNo(pc[r]) + 1
                        \/ StageNo(pc'[r]) = StageNo(pc[r]) /\ StageNo(pc[r]) = 5
                        \/ pc'[r] = "cleanup"]_vars
    /\ [](\A r \in Reviews :
            out[r].err \in AcquisitionErrors
                => /\ pc[r] \in {"cleanup", "respond"}
                   /\ out[r].tried = <<>>
                   /\ out[r].diff = ""
                   /\ inv[r] = NoInv)

\* The checkout of a review failed: it is at the release with no diff base
\* tried and no tool run.
C21_Witness ==
    \E r \in Reviews :
        /\ pc[r] = "cleanup"
        /\ out[r].err = "git checkout failed"
        /\ out[r].tried = <<>>
        /\ inv[r] = NoInv

\* C23: when setupTempDir returns, no directory exists at the path it
\* returns; and a clone that succeeds starts with no directory at its path
\* and leaves one that holds nothing but what it cloned.
C23_NoStaleWorkspace ==
    [][\A r \in Reviews :
          /\ (pc[r] = "setup" /\ pc'[r] = "clone") => ~ws'[repoDir'[r]].exists
          /\ (pc[r] = "clone" /\ pc'[r] = "fetchpr")
                 => /\ ~ws[repoDir[r]].exists
                    /\ ws'[repoDir[r]] = [exists |-> TRUE, owner |-> r, files |-> {}]]_vars

\* Earlier runs left directories behind (one is still there at another
\* path); setupTempDir has returned and no directory is at its path.
C23_Witness ==
    \E r \in Reviews :
        /\ pc[r] = "clone"
        /\ ~ws[repoDir[r]].exists
        /\ \E p \in Paths : ws[p] = Stale

\* The output of the tool is malformed: it is not valid JSON.
Malformed(t) == ~JSONParse(t).ok

\* The tool invocation of r timed out, or ran and printed malformed output.
TimedOutOrMalformed(r) ==
    inv[r].exit = "timeout" \/ (inv[r].exit # "none" /\ Malformed(inv[r].stdout))

\* The ReviewResult of a review with no findings.
NoIssuesResult(url) ==
    [status |-> 200, error |-> "", prUrl |-> url, findings |-> <<>>,
     talkScript |-> NoIssuesTalkScript, draftComment |-> NoIssuesComment]

C22_AcceptedReviewEnds ==
    \A r \in Reviews : (pc[r] = "fetch") ~> (pc[r] = "done")

\* C24: leaving the release step changes neither the findings computed nor
\* the error already raised, whether the directory could be removed or not.
C24_ReleaseKeepsOutcome ==
    [][\A r \in Reviews :
          (pc[r] = "cleanup" /\ pc'[r] = "respond")
              => /\ out'[r].findings = out[r].findings
                 /\ out'[r].err = out[r].err]_vars

\* Segments that are a decimal number and nothing else.
NumericSegs == {"1", "01", "2"}

\* Positions of a locator where the host github.com is followed by an
\* owner, a repository, the segment pull and a number.
WellFormedAt(url) ==
    { i \in 1..(Len(url) - 4) :
        /\ url[i] = "github.com"
        /\ url[i + 1] # ""
        /\ url[i + 2] # ""
        /\ url[i + 3] = "pull"
        /\ url[i + 4] \in NumericSegs }

\* C26: parsePRUrl returns the owner, the repository and the number of
\* every locator github.com/<owner>/<repo>/pull/<n>, and throws for every
\* other string: another host, no pull segment, an id that is not a number.
C26_ParsePRUrlExact ==
    lphase = "done" =>
        IF WellFormedAt(lurl) = {}
        THEN ~linfo.ok
        ELSE \E i \in WellFormedAt(lurl) :
                linfo = [ok |-> TRUE, owner |-> lurl[i + 1], repo |-> lurl[i + 2],
                         pullNumber |-> LeadingDigits(lurl[i + 4])]

\* The two calls of generateDraftComment have returned, or the first has.
Drafted == dphase \in {"once", "twice"}

IsHeading(line) == line.kind = "heading"

\* The findings the user approved or left undecided, in the order given.
Kept == SelectSeq(dorig, LAMBDA f : f.userDecision \in {"APPROVED", ""})

\* The headings of the comment that carry the summary of such a finding.
KeptHeadings ==
    SelectSeq(dfirst, LAMBDA l : /\ IsHeading(l)
                                 /\ \E j \in 1..Len(Kept) : Kept[j].summary = l.text)

\* C27: no heading of the comment is the one of a DISMISSED finding, and the
\* findings that are APPROVED or undecided have their headings in the comment
\* in the order of the input.
C27_DismissedOutKeptInOrder ==
    Drafted =>
        /\ \A i \in 1..Len(dorig) :
              (/\ dorig[i].userDecision = "DISMISSED"
               /\ \A j \in 1..Len(Kept) : Kept[j].summary # dorig[i].summary)
                  => \A n \in 1..Len(dfirst) :
                        IsHeading(dfirst[n]) => dfirst[n].text # dorig[i].summary
        /\ Len(KeptHeadings) = Len(Kept)
        /\ \A j \in 1..Len(Kept) : KeptHeadings[j].text = Kept[j].summary

C27_Witness ==
    /\ Drafted
    /\ Len(dorig) = 2
    /\ dorig[1].userDecision = "DISMISSED"
    /\ dorig[2].userDecision = "APPROVED"
    /\ dorig[1].summary # dorig[2].summary
    /\ Len(KeptHeadings) = 1

C29_NoIssuesIffNoneIncluded ==
    Drafted =>
        /\ dfirst = NoIssuesLines <=> Len(Kept) = 0
        /\ Len(Kept) > 0 =>
              /\ dfirst[1].text = "## PR Review Summary"
              /\ IsHeading(dfirst[3])

C29_Witness ==
    /\ dphase = "once"
    /\ Len(dorig) = 2
    /\ Len(Kept) = 0
    /\ dfirst = NoIssuesLines

\* The positions of the headings in the comment.
HeadingAt == SelectSeq([n \in 1..Len(dfirst) |-> n], LAMBDA n : IsHeading(dfirst[n]))

\* The positions of the lines a finding is rendered in: from its heading up
\* to the next one.
BlockAt(k) ==
    HeadingAt[k]..(IF k < Len(HeadingAt) THEN HeadingAt[k + 1] - 1 ELSE Len(dfirst))

\* The texts and line numbers of the lines of one kind in a block.
Shown(k, kind) ==
    { <<dfirst[n].text, dfirst[n].range>> : n \in {m \in BlockAt(k) : dfirst[m].kind = kind} }

Rank(kind) ==
    CASE kind = "heading" -> 1
      [] kind = "file" -> 2
      [] kind = "reason" -> 3
      [] kind = "suggestion" -> 4
      [] OTHER -> 5

\* C30: the lines of an included finding are its heading with icon, status
\* and summary, then the file of its first evidence entry with the line
\* numbers the entry has, then its reason, then its suggestion, each only
\* when present; no other evidence entry is rendered.
C30_BlockOfEachFinding ==
    (Drafted /\ Len(Kept) > 0) =>
        /\ Len(HeadingAt) = Len(Kept)
        /\ \A n \in 3..(Len(dfirst) - 1) :
              IF dfirst[n].kind = "blank" THEN IsHeading(dfirst[n + 1])
              ELSE Rank(dfirst[n].kind) < Rank(dfirst[n + 1].kind)
        /\ dfirst[Len(dfirst)].kind = "blank"
        /\ \A k \in 1..Len(Kept) :
              LET f == Kept[k]
                  ev == f.evidence
              IN  /\ dfirst[HeadingAt[k]].text = f.summary
                  /\ dfirst[HeadingAt[k]].label \in
                        {"[v] PASS", "[x] FAIL", "[?] " \o f.status}
                  /\ dfirst[HeadingAt[k]].label = "[v] PASS" <=> f.status = "PASS"
                  /\ dfirst[HeadingAt[k]].label = "[x] FAIL" <=> f.status = "FAIL"
                  /\ Shown(k, "file") =
                        IF Len(ev) = 0 THEN {}
                        ELSE {<<ev[1].filePath,
                                IF ev[1].startLine = 0 THEN <<>>
                                ELSE IF ev[1].endLine = 0 THEN <<ev[1].startLine>>
                                ELSE <<ev[1].startLine, ev[1].endLine>> >>}
                  /\ Shown(k, "reason") = IF f.reason = "" THEN {} ELSE {<<f.reason, <<>> >>}
                  /\ Shown(k, "suggestion") =
                        IF f.suggestion = "" THEN {} ELSE {<<f.suggestion, <<>> >>}

C30_Witness ==
    /\ dphase = "once"
    /\ Len(Kept) = 2
    /\ Len(Kept[1].evidence) = 2
    /\ Kept[1].reason # ""
    /\ Kept[2].suggestion # ""
    /\ Len(Kept[2].evidence) = 1
    /\ \E n \in 1..Len(dfirst) : dfirst[n].kind = "file" /\ Len(dfirst[n].range) = 2

\* C31: two runs that differ only in the GitHub token write the same lines
\* to the log and send the same response, whichever step fails.
C31_TokenNotDisclosed ==
    (\A i \in Runs : kpc[i] = "done") => (klog[1] = klog[2] /\ kresp[1] = kresp[2])

\* C32: on the review screen, as long as the user has not typed in the
\* draft, the draft comment shown is the comment derived from the findings
\* with the decisions they have now.
C32_DraftFollowsDecisions ==
    (currentScreen = "review" /\ ~edited) => uiDraft = DraftComment(uiFindings)

\* C35: the review screen is shown only while a result is held; isLoading
\* is true exactly while a submit request is in flight and at most one is;
\* a submit that fails leaves the upload screen with an error and no
\* result; Back leads to the upload screen with result and error cleared.
C35_AppStates ==
    /\ [](/\ currentScreen = "review" => reviewResult.held
          /\ isLoading <=> inflight > 0
          /\ inflight <= 1
          /\ currentScreen = "upload" => ~reviewResult.held)
    /\ [][/\ (inflight' < inflight /\ ~reviewResult'.held)
                => (currentScreen' = "upload" /\ uiError' # "")
          /\ (currentScreen = "review" /\ currentScreen' = "upload")
                => (reviewResult' = NoResult /\ uiError' = "")]_vars

C35_Witness ==
    /\ currentScreen = "upload"
    /\ uiError = "Failed to fetch"
    /\ ~isLoading
    /\ inflight = 0
    /\ prUrlInput = "u"

\* The fields of a finding other than the decision of the user.
Undecided(f) == [f EXCEPT !.userDecision = ""]

\* C36: a step that changes the findings of the review screen keeps their
\* number and order and every field but userDecision; the findings whose
\* decision it changes, and no others, have one id, and the decision it
\* sets is APPROVED or DISMISSED; a decision that is set stays set and is
\* never EDITED.
C36_OnlyTheDecisionOfOneId ==
    [][(currentScreen = "review" /\ currentScreen' = "review" /\ uiFindings' # uiFindings)
          => /\ Len(uiFindings') = Len(uiFindings)
             /\ \A j \in 1..Len(uiFindings) :
                   /\ Undecided(uiFindings'[j]) = Undecided(uiFindings[j])
                   /\ uiFindings[j].userDecision # ""
                         => uiFindings'[j].userDecision \in {"APPROVED", "DISMISSED"}
             /\ \E id \in FindingIds, action \in {"APPROVED", "DISMISSED"} :
                   \A j \in 1..Len(uiFindings) :
                       uiFindings'[j].userDecision =
                           IF uiFindings[j].id = id THEN action
                           ELSE uiFindings[j].userDecision]_vars

C36_Witness ==
    /\ currentScreen = "review"
    /\ Len(uiFindings) = 2
    /\ uiFindings[1].id # uiFindings[2].id
    /\ uiFindings[1].userDecision = "DISMISSED"
    /\ uiFindings[2].userDecision = ""

\* C33: a poll is in flight only while the operation has not been seen
\* complete and fewer than 30 polls were made; the step that first sees the
\* operation complete is the return of the call, with no poll made when it
\* is the upload that reported it and one poll more than before when it is
\* a poll, the 30th included.
C33_NoPollAfterDone ==
    /\ [](\A u \in Uploads :
             upc[u] = "poll" => (~up[u].done /\ up[u].attempts < MaxAttempts))
    /\ [][\A u \in Uploads :
             (~up[u].done /\ up'[u].done)
                 => /\ upc'[u] = "returned"
                    /\ up'[u].err = ""
                    /\ upc[u] = "upload" => up'[u].attempts = 0
                    /\ upc[u] = "poll" => /\ up'[u].attempts = up[u].attempts + 1
                                          /\ up'[u].attempts \in 1..MaxAttempts]_vars

C33_Witness ==
    \E u \in Uploads :
        /\ upc[u] = "returned"
        /\ up[u].done
        /\ up[u].attempts = MaxAttempts

\* C34: a request is answered with status 400, in the step that reads it,
\* exactly when prUrl is missing or lacks github.com or /pull/; such a
\* request never reaches the fetch of the PR details.  A locator that passes
\* this check and does not match the reference pattern is answered with an
\* error.  In both cases no step of the request changes a workspace.
C34_RejectedBeforeAnyWorkspace ==
    /\ [](\A r \in Reviews :
             pc[r] \notin {"idle", "done"}
                 => (IncludesHost(req[r].url) /\ IncludesPull(req[r].url)))
    /\ [][\A r \in Reviews :
             /\ (pc[r] = "idle" /\ pc'[r] = "done")
                   => (resp'[r].status = 400 /\ ws' = ws)
             /\ (pc[r] = "fetch" /\ ~ParsePRUrl(req[r].url).ok)
                   => (pc'[r] = "fetch"
                       \/ (pc'[r] = "done" /\ resp'[r].status = 500
                           /\ resp'[r].error # "" /\ ws' = ws))]_vars

C34_Witness ==
    \E r \in Reviews :
        /\ pc[r] = "done"
        /\ resp[r].status = 500
        /\ resp[r].error = "Invalid GitHub PR URL"
        /\ \A p \in Paths : ~ws[p].exists

\* runGeminiCLI has returned after scanning raw output: the invocation
\* succeeded and the parsing of its output threw, or it failed with output.
ScanRan ==
    /\ pphase = "returned"
    /\ \/ pin.exit = "ok" /\ ParsingThrows(pin.stdout)
       \/ pin.exit # "ok" /\ pin.stdout # <<>>

\* A valid JSON array with an element that has an array for a member.
NestedArrayText(t) ==
    LET p == JSONParse(t)
    IN  /\ p.ok
        /\ p.v.k = "arr"
        /\ \E j \in 1..Len(p.v.items) :
              /\ p.v.items[j].k = "obj"
              /\ \E m \in 1..Len(p.v.items[j].items) :
                    /\ Len(p.v.items[j].items[m].items) > 0
                    /\ p.v.items[j].items[m].items[1].k = "arr"

\* C37: the scan of raw output returns the elements of the text from the
\* first "[" to the first "]" after it when that text is a JSON array, and
\* nothing otherwise; the partial output of a failed invocation that is a
\* findings array with an evidence array inside gives no findings.
C37_ScanTakesShortestBracketed ==
    /\ ScanRan =>
          /\ ~pout.threw
          /\ pout.ret = IF FirstBracketed(pin.stdout) # <<>>
                           /\ JSONParse(FirstBracketed(pin.stdout)).ok
                        THEN JSONParse(FirstBracketed(pin.stdout)).v.items
                        ELSE <<>>
    /\ (pphase = "returned" /\ pin.exit # "ok" /\ NestedArrayText(pin.stdout))
          => pout.ret = <<>>

C37_Witness ==
    /\ pphase = "returned"
    /\ pin.exit = "fail"
    /\ pin.stdout = ArrText(<<FindingText("idF1", "stFAIL", "cf5", EvOne)>>)
    /\ pout.ret = <<>>

\* C38: the comment has one heading for each finding that is APPROVED or
\* undecided and no more, and none that is the heading of an EDITED finding.
C38_EditedExcluded ==
    Drafted =>
        /\ Len(SelectSeq(dfirst, IsHeading)) = Len(Kept)
        /\ \A i \in 1..Len(dorig) :
              (/\ dorig[i].userDecision = "EDITED"
               /\ \A j \in 1..Len(Kept) : Kept[j].summary # dorig[i].summary)
                  => \A n \in 1..Len(dfirst) :
                        IsHeading(dfirst[n]) => dfirst[n].text # dorig[i].summary

C38_Witness ==
    /\ Drafted
    /\ Len(dorig) = 2
    /\ dorig[1].userDecision = "EDITED"
    /\ dorig[2].userDecision = "APPROVED"
    /\ dorig[1].summary # dorig[2].summary
    /\ Len(SelectSeq(dfirst, IsHeading)) = 1

\* A call holds a temp file: it wrote one and has not left the try block.
HoldsTempFile(u) == upc[u] \in {"upload", "poll"}

\* C39: two calls that hold a temp file at the same time hold different
\* paths, so the file at the path of a call is the one that call wrote.
C39_DistinctTempPaths ==
    \A u \in Uploads, v \in Uploads :
        (u # v /\ HoldsTempFile(u) /\ HoldsTempFile(v))
            => /\ up[u].tempFilePath # up[v].tempFilePath
               /\ tmp[up[u].tempFilePath] = u

\* C40: whatever the name of the uploaded file, the requirement file is
\* written inside the workspace directory of its review, at the step after
\* checkout and before the diff, and no file it wrote is left when the
\* review has answered.
C40_RequirementFileInsideWorkspace ==
    /\ [](/\ strays = {}
          /\ \A p \in Paths : ws[p].files # {} => ws[p].exists)
    /\ [][\A p \in Paths :
             ws'[p].files # ws[p].files /\ ws'[p].files # {}
                 => \E r \in Reviews :
                       /\ pc[r] = "copyreq"
                       /\ pc'[r] = "diffMain"
                       /\ repoDir[r] = p]_vars

====
